---- MODULE Spec2Model ----
(***************************************************************************)
(* Model of the paper-trading session engine (backend/core/paper_trading.py):*)
(* the session registry, the lifecycle calls, the per-session trading loop  *)
(* task, order execution and the reconciliation pass, as coroutines of one  *)
(* cooperative event loop.  Every await of the source is a suspension point *)
(* (a pc value); the code between two awaits is one atomic step.            *)
(*                                                                         *)
(* Numbers: money and units are integers; a strategy position (a float     *)
(* multiplier in the source) is kept in hundredths (100 = 1.0).  Times are *)
(* whole seconds of one clock that serves time.monotonic() and the wall    *)
(* clock.                                                                  *)
(***************************************************************************)
EXTENDS Integers, Sequences, FiniteSets, TLC

\* ---------------------------------------------------------------- bounds
\* control calls issued in one behaviour
MaxOps == 3
\* the clock stops at MaxTime seconds
MaxTime == 5
\* trading-loop task objects alive or remembered at once
MaxTasks == 2
\* control calls suspended in an await at once
MaxInflight == 2
\* control calls issued in one behaviour of two sessions on one instrument
MaxOpsShared == 5
\* control calls issued in one behaviour of the reconciliation scenarios
MaxOpsRecon == 3
\* control calls issued in one behaviour of two sessions under reconciliation
MaxOpsTrades == 4
\* control calls issued in one behaviour of two sessions that trade
MaxOpsOwnLongs == 5
\* control calls issued in one behaviour of the fault scenarios
MaxOpsFaults == 3
\* control calls issued in one behaviour of the capacity scenarios
MaxOpsCapacity == 4
\* control calls issued in one behaviour of the unknown-session scenarios
MaxOpsUnknown == 3
\* control calls issued in one behaviour of the recovery scenarios
MaxOpsRecover == 3
\* bars in one run of the backtest
MaxBars == 3
\* control calls issued in one behaviour of the clamping scenarios
MaxOpsClamp == 2
\* control calls issued in one behaviour of the quote scenarios
MaxOpsQuote == 2
\* control calls issued in SpecOrders
MaxOpsOrders == 2
\* control calls issued in SpecBars, and the clock's last value there
MaxOpsBars == 2
MaxTimeBars == 10
\* SpecHistory: a session starts with ShortOfCap to 0 closed trades fewer than
\* MAX_CLOSED_TRADES and StillOpen trades open; the clock's last value there
ShortOfCap == 2
StillOpen == 3
MaxTimeHistory == 30
\* control calls issued in SpecLedger, and the clock reading from which time is
\* counted relative to the clock there
MaxOpsLedger == 2
MaxTimeLedger == 15
\* control calls issued in SpecCoResident
\* runner tasks the manager may spawn, ticks a runner processes, control calls
\* issued in SpecManager
MaxRunners == 2
RunnerIds == 1..MaxRunners
MaxTicks == 2
MaxOpsManager == 4

MaxOpsCoResident == 2
\* control calls issued in SpecPages, and the clock's last value there
MaxOpsPages == 2
MaxTimePages == 30
\* the ceiling on RUNNING sessions an engine of the capacity scenarios is
\* configured with (the class default is MAX_CONCURRENT_SESSIONS)
SmallCeiling == 1

\* ------------------------------------------------------ program constants
METRICS_REFRESH_SECONDS == 15
MIN_BAR_POLL_SECONDS == 5
MAX_BAR_POLL_SECONDS == 20
PAUSE_SLEEP_SECONDS == 5
IDLE_SLEEP_SECONDS == 1
MAX_CLOSED_TRADES == 200
TRANSACTION_REFRESH_SECONDS == 60
MAX_CONCURRENT_SESSIONS == 10
DefaultMaxPositionSize == 10000
DefaultGranularitySeconds == 60
MinTradeUnits == 1

\* Optional[datetime] / Optional[str] = None
NoTime == -1
NoPrice == -1
None == "None"

TradingStatus == {"stopped", "starting", "running", "paused", "error", "stopping"}

\* the clock advances in steps of this many seconds
TickSeconds == MIN_BAR_POLL_SECONDS

\* ------------------------------------------------------------- inputs
SessionIds == {"s1", "s2"}
AccountIds == {"A"}
Instruments == {"EUR_USD"}
OtherInstrument == "USD_JPY"
Granularities == {"S5"}
DailyLossLimits == {0, 100}

\* what the broker's account summary may answer
AccountSummaries ==
    { [balance |-> 1000, NAV |-> 1000, unrealizedPL |-> 0, marginUsed |-> 0, marginAvailable |-> 1000],
      [balance |-> 900,  NAV |-> 900,  unrealizedPL |-> 0, marginUsed |-> 0, marginAvailable |-> 900] }

TaskIds == 1..MaxTasks
CallIds == 1..MaxInflight

Abs(x) == IF x < 0 THEN -x ELSE x
Min(a, b) == IF a <= b THEN a ELSE b
Max(a, b) == IF a >= b THEN a ELSE b
Restrict(f, S) == [x \in S |-> f[x]]

VARIABLES
    sessions,       \* engine.sessions: session_id -> PaperTradingSession
    detached,       \* session objects deleted from the dict but still referenced
    running_tasks,  \* engine.running_tasks: session_id -> task
    clients,        \* keys of engine.clients
    tasks,          \* the trading-loop task objects
    calls,          \* control calls suspended in an await
    now,            \* the clock
    running,        \* the coroutine that holds the event loop between two awaits
    ops,            \* control calls still to be issued
    ret,            \* the control call that returned (or raised) in the last step
    risk_paused,    \* history: sessions the loop paused on a risk breach and
                    \* on which resume_session has not been called since
    ev,             \* what the last step did at the strategy and the broker
    bt,             \* the run of run_backtest (backtest/engine.py)
    mgr             \* the StrategyManager and the runner tasks it spawned

vars == <<sessions, detached, running_tasks, clients, tasks, calls, now, running, ops, ret,
          risk_paused, ev, bt, mgr>>

\* ------------------------------------------------------------ data model
PaperTradingSession(account_id, instrument, granularity, max_position_size, max_daily_loss) ==
    [ account_id |-> account_id,
      instrument |-> instrument,
      granularity |-> granularity,
      status |-> "stopped",
      initial_balance |-> 0,
      current_balance |-> 0,
      equity |-> 0,
      unrealized_pl |-> 0,
      realized_pl |-> 0,
      margin_used |-> 0,
      margin_available |-> 0,
      total_trades |-> 0,
      winning_trades |-> 0,
      losing_trades |-> 0,
      positions |-> << >>,
      open_trades |-> << >>,
      closed_trades |-> << >>,
      session_position_units |-> 0,
      session_trade_ids |-> {},
      start_time |-> NoTime,
      last_update |-> NoTime,
      error_message |-> None,
      max_position_size |-> max_position_size,
      max_daily_loss |-> max_daily_loss,
      daily_loss |-> 0,
      next_metrics_update |-> 0,
      next_bar_poll |-> 0,
      last_transaction_time |-> NoTime,
      next_transaction_sync |-> 0 ]

NoTask ==
    [ sid |-> None, pc |-> "unused", must_cancel |-> FALSE, started |-> FALSE,
      stops |-> 0, ctx_position |-> 0, last_bar_time |-> 0, iter_now |-> 0,
      wake |-> 0, old_position |-> 0, previous_open_trades |-> << >>,
      current_open_trade_ids |-> {}, outcome |-> None ]

\* a suspended control call.  auto, tracked, todo and closing are the locals of
\* recover_orphaned_positions: auto_close, tracked_instruments, the positions
\* still to be looked at and the instrument whose close is awaited.
NoCall ==
    [ op |-> None, sid |-> None, pc |-> None, task |-> 0, owned |-> 0, closed |-> 0, co |-> FALSE,
      auto |-> FALSE, tracked |-> {}, todo |-> << >>, closing |-> None ]

NoReturn == [ op |-> None, sid |-> None, outcome |-> None ]

\* no run of run_backtest
NoBacktest ==
    [ pc |-> None, bars |-> << >>, targets |-> << >>, notional_per_unit |-> 0, slippage |-> 0,
      fee_bps |-> 0, initial_equity |-> 0, equity |-> 0, curve |-> << >>, trades |-> << >>,
      pos |-> 0, entry_px |-> NoPrice, final_equity |-> 0 ]

\* ---------------------------------------------------------------- helpers
Registered(s) == s \in DOMAIN sessions
HasObj(s) == s \in DOMAIN sessions \/ s \in DOMAIN detached
Obj(s) == IF s \in DOMAIN sessions THEN sessions[s] ELSE detached[s]

\* write through a reference to the session object of id s
SetObj(s, r) ==
    /\ sessions' = IF s \in DOMAIN sessions THEN [sessions EXCEPT ![s] = r] ELSE sessions
    /\ detached' = IF s \in DOMAIN sessions THEN detached ELSE [detached EXCEPT ![s] = r]

TaskDone(t) == tasks[t].pc = "done"
TaskLive(t) == tasks[t].pc \notin {"unused", "done"}
CallFree(c) == calls[c].op = None

\* a coroutine still holds a reference to the session object of id s
Referenced(s) ==
    \/ \E t \in TaskIds : TaskLive(t) /\ tasks[t].sid = s
    \/ \E c \in CallIds : ~CallFree(c) /\ calls[c].sid = s

\* a task slot that nothing refers to any more
SlotFree(t) ==
    /\ tasks[t].pc \in {"unused", "done"}
    /\ \A s \in DOMAIN running_tasks : running_tasks[s] # t
    /\ \A c \in CallIds : calls[c].task # t
FreeSlots == {t \in TaskIds : SlotFree(t)}
PendingStarts == {c \in CallIds : calls[c].op = "start"}

\* nobody is between two awaits: the event loop picks the next ready coroutine
NoOne == <<"none", 0>>
Idle == running = NoOne

Issue == Idle /\ ops > 0
FreeCall == CHOOSE c \in CallIds : CallFree(c) /\ \A d \in CallIds : CallFree(d) => c <= d

Returned(op, s, outcome) == ret' = [op |-> op, sid |-> s, outcome |-> outcome]

\* ------------------------------------------------------------------ Init
\* PaperTradingEngine.__init__: no session, client or task
\* core/runner.py, StrategyRunner: pc is the await at which run() is suspended,
\* stopping is the _stopping event, fatal is set once an exception has reached
\* the outer handler (lines 91-93) and is re-raised after the finally block
NoRunner == [ pc |-> "unused", stopping |-> FALSE, fatal |-> FALSE, num_ticks |-> 0 ]

\* core/manager.py, StrategyManager.__init__ (lines 11-16): state is _state,
\* task is the runner task _task points to (0 for None), q counts the Metrics
\* put on _q, joining counts the stop() calls suspended at line 37
NoManager ==
    [ state |-> "IDLE", task |-> 0, runners |-> [i \in RunnerIds |-> NoRunner],
      q |-> 0, joining |-> 0 ]

Constructed ==
    /\ sessions = << >>
    /\ detached = << >>
    /\ running_tasks = << >>
    /\ clients = {}
    /\ tasks = [t \in TaskIds |-> NoTask]
    /\ calls = [c \in CallIds |-> NoCall]
    /\ now = 0
    /\ running = NoOne
    /\ ret = NoReturn
    /\ risk_paused = {}
    /\ ev = {}
    /\ bt = NoBacktest
    /\ mgr = NoManager

Init == Constructed /\ ops = MaxOps

\* ---------------------------------------------------------- create_session
RunningCount == Cardinality({s \in DOMAIN sessions : sessions[s].status = "running"})

\* create_session without the duplicate check of lines 182-183: the new
\* session object replaces the registered one
create_session_overwrites(s, account_id, instrument, granularity, max_daily_loss, ceiling) ==
    /\ Issue
    /\ ~(s \in DOMAIN detached /\ Referenced(s))
    /\ ops' = ops - 1
    /\ ev' = {}
    /\ UNCHANGED <<running_tasks, clients, tasks, calls, now, bt, mgr, running>>
    /\ IF RunningCount >= ceiling
       THEN /\ Returned("create", s, "capacity")
            /\ UNCHANGED <<sessions, detached, risk_paused>>
       ELSE /\ risk_paused' = risk_paused \ {s}
            /\ sessions' = [x \in DOMAIN sessions \cup {s} |->
                              IF x = s
                              THEN PaperTradingSession(account_id, instrument, granularity,
                                                       DefaultMaxPositionSize, max_daily_loss)
                              ELSE sessions[x]]
            /\ detached' = Restrict(detached, DOMAIN detached \ {s})
            /\ Returned("create", s, "ok")

\* ceiling is the engine's MAX_CONCURRENT_SESSIONS attribute (line 187)
create_session(s, account_id, instrument, granularity, max_daily_loss, ceiling) ==
    /\ Issue
    /\ ~(s \in DOMAIN detached /\ Referenced(s))
    /\ ops' = ops - 1
    /\ ev' = {}
    /\ UNCHANGED <<running_tasks, clients, tasks, calls, now, bt, mgr, running>>
    /\ IF s \in DOMAIN sessions
       THEN /\ Returned("create", s, "duplicate")
            /\ UNCHANGED <<sessions, detached, risk_paused>>
       ELSE IF RunningCount >= ceiling
       THEN /\ Returned("create", s, "capacity")
            /\ UNCHANGED <<sessions, detached, risk_paused>>
       ELSE /\ risk_paused' = risk_paused \ {s}
            /\ sessions' = [x \in DOMAIN sessions \cup {s} |->
                              IF x = s
                              THEN PaperTradingSession(account_id, instrument, granularity,
                                                       DefaultMaxPositionSize, max_daily_loss)
                              ELSE sessions[x]]
            /\ detached' = Restrict(detached, DOMAIN detached \ {s})
            /\ Returned("create", s, "ok")

\* ----------------------------------------------------------- start_session
StartingSession(r) ==
    [r EXCEPT !.status = "starting",
              !.start_time = now,
              !.error_message = None,
              !.next_metrics_update = now,
              !.next_bar_poll = now,
              !.next_transaction_sync = now,
              !.last_transaction_time = now]

\* start_session without the early return of lines 217-219
start_session_restarts_running(s, client_ok) ==
    /\ Issue
    /\ \E c \in CallIds : CallFree(c)
    /\ ops' = ops - 1
    /\ ev' = {}
    /\ UNCHANGED <<running_tasks, tasks, now, bt, mgr, risk_paused, running>>
    /\ IF ~Registered(s)
       THEN /\ Returned("start", s, "not_found")
            /\ UNCHANGED <<sessions, detached, clients, calls>>
       ELSE /\ SetObj(s, StartingSession(sessions[s]))
            /\ clients' = clients \cup {s}
            /\ calls' = [calls EXCEPT ![FreeCall] =
                            [NoCall EXCEPT !.op = "start", !.sid = s, !.pc = "summary"]]
            /\ ret' = NoReturn

\* lines 213-244: up to the await of the account summary
start_session(s, client_ok) ==
    /\ Issue
    /\ \E c \in CallIds : CallFree(c)
    /\ ops' = ops - 1
    /\ ev' = {}
    /\ UNCHANGED <<running_tasks, tasks, now, bt, mgr, risk_paused, running>>
    /\ IF ~Registered(s)
       THEN /\ Returned("start", s, "not_found")
            /\ UNCHANGED <<sessions, detached, clients, calls>>
       ELSE IF sessions[s].status = "running"
       THEN /\ Returned("start", s, "already_running")
            /\ UNCHANGED <<sessions, detached, clients, calls>>
       ELSE IF s \notin clients /\ ~client_ok
       THEN /\ SetObj(s, [StartingSession(sessions[s]) EXCEPT
                              !.status = "error",
                              !.error_message = "Failed to create OANDA client"])
            /\ Returned("start", s, "raised")
            /\ UNCHANGED <<clients, calls>>
       ELSE /\ SetObj(s, StartingSession(sessions[s]))
            /\ clients' = clients \cup {s}
            /\ calls' = [calls EXCEPT ![FreeCall] =
                            [NoCall EXCEPT !.op = "start", !.sid = s, !.pc = "summary"]]
            /\ ret' = NoReturn

NewTask(s) == [NoTask EXCEPT !.sid = s, !.pc = "new"]
AllocTask == CHOOSE t \in FreeSlots : \A u \in FreeSlots : t <= u

\* start_session_resume that gives up when the account summary fails: ERROR,
\* no task, and the call raises
start_session_resume_aborts(c, summary_ok, account) ==
    /\ Idle
    /\ calls[c].op = "start" /\ calls[c].pc = "summary"
    /\ FreeSlots # {}
    /\ LET s == calls[c].sid
           r == Obj(s)
       IN IF summary_ok
          THEN /\ SetObj(s, [r EXCEPT !.initial_balance = account.balance,
                                      !.current_balance = account.balance,
                                      !.equity = account.balance,
                                      !.status = "running"])
               /\ tasks' = [tasks EXCEPT ![AllocTask] = NewTask(s)]
               /\ running_tasks' = [x \in DOMAIN running_tasks \cup {s} |->
                                       IF x = s THEN AllocTask ELSE running_tasks[x]]
               /\ Returned("start", s, "ok")
               /\ ev' = {}
          ELSE /\ SetObj(s, [r EXCEPT !.status = "error",
                                      !.error_message = "Failed to get account balance"])
               /\ Returned("start", s, "raised")
               /\ ev' = {[kind |-> "status_error", sid |-> s, by |-> <<"call", c>>, units |-> 0]}
               /\ UNCHANGED <<tasks, running_tasks>>
    /\ calls' = [calls EXCEPT ![c] = NoCall]
    /\ UNCHANGED <<clients, now, bt, mgr, risk_paused, running, ops>>

\* lines 245-267: the account summary answered (or failed); spawn the loop
start_session_resume(c, summary_ok, account) ==
    /\ Idle
    /\ calls[c].op = "start" /\ calls[c].pc = "summary"
    /\ FreeSlots # {}
    /\ LET s == calls[c].sid
           r == Obj(s)
           seeded == IF summary_ok
                     THEN [r EXCEPT !.initial_balance = account.balance,
                                    !.current_balance = account.balance,
                                    !.equity = account.balance]
                     ELSE [r EXCEPT !.error_message = "Failed to get account balance"]
       IN /\ SetObj(s, [seeded EXCEPT !.status = "running"])
          /\ tasks' = [tasks EXCEPT ![AllocTask] = NewTask(s)]
          /\ running_tasks' = [x \in DOMAIN running_tasks \cup {s} |->
                                  IF x = s THEN AllocTask ELSE running_tasks[x]]
          /\ Returned("start", s, IF summary_ok THEN "ok" ELSE "ok_after_error")
          \* line 251 writes ERROR before line 266 writes RUNNING
          /\ ev' = IF summary_ok THEN {} ELSE {[kind |-> "status_error", sid |-> s,
                                                by |-> <<"call", c>>, units |-> 0]}
    /\ calls' = [calls EXCEPT ![c] = NoCall]
    /\ UNCHANGED <<clients, now, bt, mgr, risk_paused, running, ops>>

\* ------------------------------------------------- pause / resume_session
pause_session(s) ==
    /\ Issue
    /\ ops' = ops - 1
    /\ ev' = {}
    /\ UNCHANGED <<running_tasks, clients, tasks, calls, now, bt, mgr, risk_paused, running>>
    /\ IF ~Registered(s)
       THEN /\ Returned("pause", s, "not_found")
            /\ UNCHANGED <<sessions, detached>>
       ELSE IF sessions[s].status = "running"
       THEN /\ SetObj(s, [sessions[s] EXCEPT !.status = "paused"])
            /\ Returned("pause", s, "ok")
       ELSE /\ Returned("pause", s, "ignored")
            /\ UNCHANGED <<sessions, detached>>

\* resume_session that leaves the scheduling cursors as they are
resume_session_keeps_cursors(s) ==
    /\ Issue
    /\ ops' = ops - 1
    /\ ev' = {}
    /\ UNCHANGED <<running_tasks, clients, tasks, calls, now, bt, mgr, running>>
    /\ risk_paused' = risk_paused \ {s}
    /\ IF ~Registered(s)
       THEN /\ Returned("resume", s, "not_found")
            /\ UNCHANGED <<sessions, detached>>
       ELSE IF sessions[s].status = "paused"
       THEN /\ SetObj(s, [sessions[s] EXCEPT !.status = "running"])
            /\ Returned("resume", s, "ok")
       ELSE /\ Returned("resume", s, "ignored")
            /\ UNCHANGED <<sessions, detached>>

\* lines 373-385
resume_session(s) ==
    /\ Issue
    /\ ops' = ops - 1
    /\ ev' = {}
    /\ UNCHANGED <<running_tasks, clients, tasks, calls, now, bt, mgr, running>>
    /\ risk_paused' = risk_paused \ {s}
    /\ IF ~Registered(s)
       THEN /\ Returned("resume", s, "not_found")
            /\ UNCHANGED <<sessions, detached>>
       ELSE IF sessions[s].status = "paused"
       THEN /\ SetObj(s, [sessions[s] EXCEPT !.status = "running",
                                             !.next_metrics_update = now,
                                             !.next_bar_poll = now,
                                             !.next_transaction_sync = now])
            /\ Returned("resume", s, "ok")
       ELSE /\ Returned("resume", s, "ignored")
            /\ UNCHANGED <<sessions, detached>>

\* ------------------------------------------------------------ the strategy
\* ctx.position values a strategy may leave, in hundredths (100 = 1.0)
StrategyTargets == {-100, 0, 100}
\* timestamps of the bars the candle source may return
BarTimes == {1, 2}

\* the broker's open-positions listing: each entry has an instrument and the
\* long and short units the broker reports
PositionListings ==
    { << >>,
      << [instrument |-> "EUR_USD", long |-> 10000, short |-> 0] >>,
      << [instrument |-> "EUR_USD", long |-> 20000, short |-> 0] >>,
      << [instrument |-> "EUR_USD", long |-> 0, short |-> 10000] >>,
      << [instrument |-> OtherInstrument, long |-> 5000, short |-> 0] >> }

NetUnits(pos) == pos.long - pos.short

\* ctx.position for a number of units, and units for a ctx.position
PositionOf(units, max_position_size) == (units * 100) \div max_position_size
UnitsOf(position, max_position_size) == (position * max_position_size) \div 100

\* the first entry of a listing for an instrument (0 when there is none)
RECURSIVE FirstIndex(_, _, _)
FirstIndex(listing, instrument, i) ==
    IF i > Len(listing) THEN 0
    ELSE IF listing[i].instrument = instrument THEN i
    ELSE FirstIndex(listing, instrument, i + 1)

\* the other RUNNING sessions on the same account and instrument
other_sessions(s) ==
    { x \in DOMAIN sessions :
         /\ x # s
         /\ sessions[x].account_id = Obj(s).account_id
         /\ sessions[x].instrument = Obj(s).instrument
         /\ sessions[x].status = "running" }

\* ------------------------------------------------------------ task steps
Me(t) == <<"task", t>>
Event(kind, s, by, units) == [kind |-> kind, sid |-> s, by |-> by, units |-> units]

Finish(tk, outcome) ==
    [NoTask EXCEPT !.sid = tk.sid, !.pc = "done", !.outcome = outcome,
                   !.started = tk.started, !.stops = tk.stops]
Sleep(tk, seconds) == [tk EXCEPT !.pc = "sleep", !.wake = now + seconds]

\* lines 456-462: on_start, or the handler of a failed initialisation
OnStart(t, s, r, tk, ok) ==
    IF ok
    THEN /\ SetObj(s, r)
         /\ tasks' = [tasks EXCEPT ![t] = [tk EXCEPT !.pc = "warmup", !.started = TRUE]]
         /\ ev' = {Event("on_start", s, Me(t), 0)}
    ELSE /\ SetObj(s, [r EXCEPT !.status = "error",
                                !.error_message = "Strategy initialization failed"])
         /\ tasks' = [tasks EXCEPT ![t] = Finish(tk, "returned")]
         /\ ev' = {}

\* lines 414-441: the first step of the task
_trading_loop(t, ctor_ok, start_ok) ==
    /\ Idle
    /\ tasks[t].pc = "new"
    /\ LET s == tasks[t].sid
           tk == tasks[t]
       IN IF tk.must_cancel
          THEN /\ tasks' = [tasks EXCEPT ![t] = Finish(tk, "cancelled")]
               /\ ev' = {}
               /\ UNCHANGED <<sessions, detached>>
          ELSE IF ~Registered(s) \/ s \notin clients
          THEN /\ tasks' = [tasks EXCEPT ![t] = Finish(tk, "raised")]
               /\ ev' = {}
               /\ UNCHANGED <<sessions, detached>>
          ELSE IF ~ctor_ok
          THEN OnStart(t, s, sessions[s], tk, FALSE)
          ELSE IF other_sessions(s) # {}
          THEN OnStart(t, s, sessions[s],
                       [tk EXCEPT !.ctx_position =
                           IF sessions[s].max_position_size > 0
                           THEN PositionOf(sessions[s].session_position_units,
                                           sessions[s].max_position_size)
                           ELSE 0],
                       start_ok)
          ELSE /\ tasks' = [tasks EXCEPT ![t].pc = "sync"]
               /\ ev' = {Event("get_positions", s, Me(t), 0)}
               /\ UNCHANGED <<sessions, detached>>
    /\ UNCHANGED <<running_tasks, clients, calls, now, bt, mgr, risk_paused, running, ops>>
    /\ ret' = NoReturn

\* lines 441-462: the positions answered; sync with the broker, then on_start
trading_loop_sync(t, ok, listing, start_ok) ==
    /\ Idle
    /\ tasks[t].pc = "sync" /\ ~tasks[t].must_cancel
    /\ LET s == tasks[t].sid
           r == Obj(s)
           i == FirstIndex(listing, r.instrument, 1)
           net == IF ok /\ i > 0 THEN NetUnits(listing[i]) ELSE 0
       IN IF Abs(net) > 0
          THEN OnStart(t, s, [r EXCEPT !.session_position_units = net],
                       [tasks[t] EXCEPT !.ctx_position = PositionOf(net, r.max_position_size)],
                       start_ok)
          ELSE OnStart(t, s, r, tasks[t], start_ok)
    /\ UNCHANGED <<running_tasks, clients, calls, now, bt, mgr, risk_paused, running, ops>>
    /\ ret' = NoReturn

\* lines 466-501: the warmup candles answered (at least one bar when the fetch
\* succeeds); replay them, then enter the loop.  left is the ctx.position a
\* replayed on_bar that raised leaves behind.
trading_loop_warmup(t, fetch_ok, raised, left) ==
    /\ Idle
    /\ tasks[t].pc = "warmup" /\ ~tasks[t].must_cancel
    /\ LET s == tasks[t].sid
           r == Obj(s)
       IN /\ SetObj(s, [r EXCEPT !.next_bar_poll = now])
          /\ tasks' = [tasks EXCEPT ![t] =
                         [@ EXCEPT !.pc = "top",
                                   !.ctx_position = IF fetch_ok /\ raised THEN left ELSE @]]
          /\ ev' = IF fetch_ok THEN {Event("warmup_bar", s, Me(t), 0)} ELSE {}
    /\ running' = Me(t)
    /\ UNCHANGED <<running_tasks, clients, calls, now, bt, mgr, risk_paused, ops>>
    /\ ret' = NoReturn

\* line 594: the finally block of the loop
OnStop(tk, outcome) == [Finish(tk, outcome) EXCEPT !.stops = @ + 1]

\* lines 505-511: the top of an iteration, entered from the end of the last one
\* or when a sleep is over
loop_top(t) ==
    /\ \/ tasks[t].pc = "top" /\ running = Me(t)
       \/ tasks[t].pc = "sleep" /\ Idle /\ ~tasks[t].must_cancel /\ now >= tasks[t].wake
    /\ LET s == tasks[t].sid
           r == Obj(s)
           tk == tasks[t]
       IN IF r.status \notin {"running", "paused"}
          THEN /\ tasks' = [tasks EXCEPT ![t] = OnStop(tk, "returned")]
               /\ ev' = {Event("on_stop", s, Me(t), 0)}
               /\ running' = NoOne
               /\ UNCHANGED <<sessions, detached>>
          ELSE IF now >= r.next_metrics_update
          THEN IF ~Registered(s) \/ s \notin clients
               THEN \* lines 662-663 raise KeyError: handled at line 586
                    /\ SetObj(s, [r EXCEPT !.error_message = "KeyError"])
                    /\ tasks' = [tasks EXCEPT ![t] = Sleep([tk EXCEPT !.iter_now = now],
                                                          MIN_BAR_POLL_SECONDS)]
                    /\ ev' = {}
                    /\ running' = NoOne
               ELSE /\ tasks' = [tasks EXCEPT ![t] = [tk EXCEPT !.pc = "m_summary", !.iter_now = now]]
                    /\ ev' = {Event("get_account_summary", s, Me(t), 0)}
                    /\ running' = NoOne
                    /\ UNCHANGED <<sessions, detached>>
          ELSE /\ tasks' = [tasks EXCEPT ![t] = [tk EXCEPT !.pc = "after_metrics", !.iter_now = now]]
               /\ ev' = {}
               /\ running' = Me(t)
               /\ UNCHANGED <<sessions, detached>>
    /\ UNCHANGED <<running_tasks, clients, calls, now, bt, mgr, risk_paused, ops>>
    /\ ret' = NoReturn

granularity_seconds(g) ==
    CASE g = "S5" -> 5 [] g = "S10" -> 10 [] g = "S15" -> 15 [] g = "S30" -> 30 [] g = "M1" -> 60
      [] g = "M2" -> 120 [] g = "M5" -> 300 [] g = "M15" -> 900 [] g = "M30" -> 1800
      [] g = "H1" -> 3600 [] g = "H2" -> 7200 [] g = "H4" -> 14400 [] g = "D" -> 86400
      [] OTHER -> DefaultGranularitySeconds

\* lines 493-497 (half a bar, rounded down to whole seconds)
bar_poll_interval(g) ==
    Max(MIN_BAR_POLL_SECONDS, Min(granularity_seconds(g) \div 2, MAX_BAR_POLL_SECONDS))

\* lines 513-537: pause check, risk check, poll cursor, then the candle poll
after_metrics(t) ==
    /\ tasks[t].pc = "after_metrics" /\ running = Me(t)
    /\ LET s == tasks[t].sid
           r == Obj(s)
           tk == tasks[t]
       IN IF r.status = "paused"
          THEN /\ tasks' = [tasks EXCEPT ![t] = Sleep(tk, PAUSE_SLEEP_SECONDS)]
               /\ ev' = {}
               /\ UNCHANGED <<sessions, detached, risk_paused>>
          ELSE IF r.daily_loss >= r.max_daily_loss
          THEN /\ SetObj(s, [r EXCEPT !.status = "paused"])
               /\ tasks' = [tasks EXCEPT ![t] = Sleep(tk, PAUSE_SLEEP_SECONDS)]
               /\ ev' = {Event("risk_pause", s, Me(t), 0)}
               /\ risk_paused' = risk_paused \cup {s}
          ELSE IF tk.iter_now < r.next_bar_poll
          THEN /\ tasks' = [tasks EXCEPT ![t] =
                               Sleep(tk, Min(r.next_bar_poll - tk.iter_now, IDLE_SLEEP_SECONDS))]
               /\ ev' = {}
               /\ UNCHANGED <<sessions, detached, risk_paused>>
          ELSE /\ SetObj(s, [r EXCEPT !.next_bar_poll = tk.iter_now + bar_poll_interval(r.granularity)])
               /\ tasks' = [tasks EXCEPT ![t].pc = "poll"]
               /\ ev' = {Event("fetch_candles", s, Me(t), 0)}
               /\ UNCHANGED risk_paused
    /\ running' = NoOne
    /\ UNCHANGED <<running_tasks, clients, calls, now, bt, mgr, ops>>
    /\ ret' = NoReturn

\* PollFailed that gives the session up: status ERROR and the task ends
PollFailed_gives_up(t, s, r, tk) ==
    /\ SetObj(s, [r EXCEPT !.status = "error"])
    /\ tasks' = [tasks EXCEPT ![t] = OnStop(tk, "returned")]
    /\ running' = NoOne

\* lines 578-582: the handler of a failed candle fetch, quote or bar processing
PollFailed(t, s, r, tk) ==
    /\ SetObj(s, [r EXCEPT !.next_bar_poll = now + MIN_BAR_POLL_SECONDS])
    /\ tasks' = [tasks EXCEPT ![t] = Sleep(tk, MIN_BAR_POLL_SECONDS)]
    /\ running' = NoOne

\* line 576 and back to the top of the loop without an await
IterationDone(t, s, r, tk) ==
    /\ SetObj(s, [r EXCEPT !.last_update = now])
    /\ tasks' = [tasks EXCEPT ![t] = [tk EXCEPT !.pc = "top"]]
    /\ running' = Me(t)

\* loop_poll that takes a bar of the last processed timestamp for a new one
loop_poll_refeeds(t, fetch_ok, bars, target, raised) ==
    /\ Idle
    /\ tasks[t].pc = "poll" /\ ~tasks[t].must_cancel
    /\ LET s == tasks[t].sid
           r == Obj(s)
           tk == tasks[t]
       IN IF ~fetch_ok
          THEN /\ PollFailed(t, s, r, tk)
               /\ ev' = {}
          ELSE IF bars = << >> \/ bars[Len(bars)] < tk.last_bar_time
          THEN /\ tasks' = [tasks EXCEPT ![t] = Sleep(tk, MIN_BAR_POLL_SECONDS)]
               /\ running' = NoOne
               /\ ev' = {}
               /\ UNCHANGED <<sessions, detached>>
          ELSE LET fed == [tk EXCEPT !.last_bar_time = bars[Len(bars)],
                                     !.old_position = tk.ctx_position,
                                     !.ctx_position = target]
               IN /\ ev' = {Event("on_bar", s, Me(t), 0)}
                  /\ IF raised
                     THEN PollFailed(t, s, r, fed)
                     ELSE IF fed.old_position # fed.ctx_position
                     THEN /\ tasks' = [tasks EXCEPT ![t] = [fed EXCEPT !.pc = "quote"]]
                          /\ running' = NoOne
                          /\ UNCHANGED <<sessions, detached>>
                     ELSE IterationDone(t, s, r, fed)
    /\ UNCHANGED <<running_tasks, clients, calls, now, bt, mgr, risk_paused, ops>>
    /\ ret' = NoReturn

\* lines 539-563: the candle poll answered; feed a new bar to the strategy.
\* bars is the answer (at most the one latest bar), target what on_bar leaves
\* in ctx.position, raised whether on_bar raised after that.
loop_poll(t, fetch_ok, bars, target, raised) ==
    /\ Idle
    /\ tasks[t].pc = "poll" /\ ~tasks[t].must_cancel
    /\ LET s == tasks[t].sid
           r == Obj(s)
           tk == tasks[t]
       IN IF ~fetch_ok
          THEN /\ PollFailed(t, s, r, tk)
               /\ ev' = {}
          ELSE IF bars = << >> \/ bars[Len(bars)] <= tk.last_bar_time
          THEN /\ tasks' = [tasks EXCEPT ![t] = Sleep(tk, MIN_BAR_POLL_SECONDS)]
               /\ running' = NoOne
               /\ ev' = {}
               /\ UNCHANGED <<sessions, detached>>
          ELSE LET fed == [tk EXCEPT !.last_bar_time = bars[Len(bars)],
                                     !.old_position = tk.ctx_position,
                                     !.ctx_position = target]
               IN /\ ev' = {Event("on_bar", s, Me(t), 0)}
                  /\ IF raised
                     THEN PollFailed(t, s, r, fed)
                     ELSE IF fed.old_position # fed.ctx_position
                     THEN /\ tasks' = [tasks EXCEPT ![t] = [fed EXCEPT !.pc = "quote"]]
                          /\ running' = NoOne
                          /\ UNCHANGED <<sessions, detached>>
                     ELSE IterationDone(t, s, r, fed)
    /\ UNCHANGED <<running_tasks, clients, calls, now, bt, mgr, risk_paused, ops>>
    /\ ret' = NoReturn

\* lines 610-617: the order's size for a change of ctx.position
PositionDelta(old_position, new_position, max_position_size) ==
    LET old_units == UnitsOf(old_position, max_position_size)
        new_units == UnitsOf(new_position, max_position_size)
        clamped == IF Abs(new_units) > max_position_size
                   THEN max_position_size * (IF new_position > 0 THEN 1 ELSE -1)
                   ELSE new_units
    IN clamped - old_units

\* lines 560-574 and 604-628: the quote answered; size the order and send it.
\* quote_ok: get_pricing returned; priced: its answer carries a price (without
\* one, line 567 takes the bar's close for current_price).
loop_quote(t, quote_ok, priced) ==
    /\ Idle
    /\ tasks[t].pc = "quote" /\ ~tasks[t].must_cancel
    /\ LET s == tasks[t].sid
           r == Obj(s)
           tk == tasks[t]
           delta == PositionDelta(tk.old_position, tk.ctx_position, r.max_position_size)
       IN IF ~quote_ok \/ ~Registered(s) \/ s \notin clients
          THEN /\ PollFailed(t, s, r, tk)
               /\ ev' = {}
          ELSE IF Abs(delta) < MinTradeUnits
          THEN /\ IterationDone(t, s, r, tk)
               /\ ev' = {}
          ELSE /\ tasks' = [tasks EXCEPT ![t].pc = "order"]
               /\ running' = NoOne
               /\ ev' = {Event("create_market_order", s, Me(t), delta)}
                        \cup (IF priced THEN {} ELSE {Event("price_from_close", s, Me(t), 0)})
               /\ UNCHANGED <<sessions, detached>>
    /\ UNCHANGED <<running_tasks, clients, calls, now, bt, mgr, risk_paused, ops>>
    /\ ret' = NoReturn

\* the trade IDs an order's fill confirmation may carry
TradeIds == {"t1", "t2"}
OrderFills == { {} }

\* loop_order that books the order's units also when the broker call failed
loop_order_books_failed(t, order_ok, fill) ==
    /\ Idle
    /\ tasks[t].pc = "order" /\ ~tasks[t].must_cancel
    /\ LET s == tasks[t].sid
           r == Obj(s)
           tk == tasks[t]
           delta == PositionDelta(tk.old_position, tk.ctx_position, r.max_position_size)
       IN /\ IterationDone(t, s,
                IF order_ok
                THEN [r EXCEPT !.session_trade_ids = @ \cup fill,
                               !.session_position_units = @ + delta]
                ELSE [r EXCEPT !.error_message = "Order execution failed",
                               !.session_position_units = @ + delta],
                tk)
          /\ ev' = {}
    /\ UNCHANGED <<running_tasks, clients, calls, now, bt, mgr, risk_paused, ops>>
    /\ ret' = NoReturn

\* lines 630-658 and 576: the order answered
loop_order(t, order_ok, fill) ==
    /\ Idle
    /\ tasks[t].pc = "order" /\ ~tasks[t].must_cancel
    /\ LET s == tasks[t].sid
           r == Obj(s)
           tk == tasks[t]
           delta == PositionDelta(tk.old_position, tk.ctx_position, r.max_position_size)
       IN /\ IterationDone(t, s,
                IF order_ok
                THEN [r EXCEPT !.session_trade_ids = @ \cup fill,
                               !.session_position_units = @ + delta]
                ELSE [r EXCEPT !.error_message = "Order execution failed"],
                tk)
          /\ ev' = {}
    /\ UNCHANGED <<running_tasks, clients, calls, now, bt, mgr, risk_paused, ops>>
    /\ ret' = NoReturn

\* task.cancel() took effect: CancelledError is raised at the await the task is
\* suspended in.  Inside the loop's try (line 504) it is caught at line 590 and
\* the finally block runs; before it (position sync, warmup) nothing is run.
LoopAwaits == {"m_summary", "m_positions", "m_trades", "m_tx", "sleep", "poll", "quote", "order"}

cancelled(t) ==
    /\ Idle
    /\ tasks[t].must_cancel
    /\ tasks[t].pc \in {"sync", "warmup"} \cup LoopAwaits
    /\ LET s == tasks[t].sid
           tk == tasks[t]
       IN IF tk.pc \in LoopAwaits
          THEN /\ tasks' = [tasks EXCEPT ![t] = OnStop(tk, "returned")]
               /\ ev' = {Event("on_stop", s, Me(t), 0)}
               /\ IF tk.pc = "m_tx"
                  THEN SetObj(s, [Obj(s) EXCEPT !.next_transaction_sync =
                                     tk.iter_now + TRANSACTION_REFRESH_SECONDS])
                  ELSE UNCHANGED <<sessions, detached>>
          ELSE /\ tasks' = [tasks EXCEPT ![t] = Finish(tk, "cancelled")]
               /\ ev' = {}
               /\ UNCHANGED <<sessions, detached>>
    /\ UNCHANGED <<running_tasks, clients, calls, now, bt, mgr, risk_paused, running, ops>>
    /\ ret' = NoReturn

\* ------------------------------------------------- _update_account_metrics
Put(f, k, v) == [x \in DOMAIN f \cup {k} |-> IF x = k THEN v ELSE f[x]]

\* lines 737-746: the Trade built for a listed open trade
OpenTrade(trade, open_time) ==
    [ id |-> trade.id, instrument |-> trade.instrument, open_time |-> open_time,
      close_time |-> NoTime, open_price |-> trade.price, close_price |-> NoPrice,
      units |-> trade.currentUnits, realized_pl |-> trade.unrealizedPL ]

\* lines 709-746 for one listed trade.  acc.open_time_str is the local of that
\* name: << >> while it is unbound, else <<the string>> (NoTime stands for "").
\* acc.failed: an exception left the loop (line 874 catches it).
TrackTrade(acc, trade, instrument, start_time) ==
    LET known == trade.id \in acc.session_trade_ids
        by_time == ~known /\ trade.instrument = instrument /\ start_time # NoTime
        open_time_str == IF by_time THEN <<trade.openTime>> ELSE acc.open_time_str
        recent == by_time /\ trade.openTime # NoTime /\ trade.openTime >= start_time
        ids == IF recent THEN acc.session_trade_ids \cup {trade.id} ELSE acc.session_trade_ids
    IN IF ~(known \/ recent)
       THEN [acc EXCEPT !.open_time_str = open_time_str]
       ELSE IF open_time_str = << >> \/ open_time_str[1] = NoTime
       THEN [acc EXCEPT !.session_trade_ids = ids, !.failed = TRUE]
       ELSE [acc EXCEPT !.session_trade_ids = ids,
                        !.open_time_str = open_time_str,
                        !.open_trades = Put(@, trade.id, OpenTrade(trade, open_time_str[1]))]

\* lines 706-746: the loop over the broker's open trades
RECURSIVE TrackTrades(_, _, _, _, _)
TrackTrades(acc, trades, i, instrument, start_time) ==
    IF i > Len(trades) \/ acc.failed THEN acc
    ELSE TrackTrades(TrackTrade(acc, trades[i], instrument, start_time),
                     trades, i + 1, instrument, start_time)

\* lines 792-801: the opening fill of a trade within the page (0: none)
RECURSIVE OpeningFill(_, _, _)
OpeningFill(transactions, tx, j) ==
    IF j > Len(transactions) THEN 0
    ELSE IF /\ transactions[j].tradeID = tx.tradeID
            /\ transactions[j].type = "ORDER_FILL"
            /\ transactions[j].id # tx.id
    THEN j
    ELSE OpeningFill(transactions, tx, j + 1)

\* AppendCapped that cuts the list at its end: the oldest entries stay
AppendCapped_keeps_oldest(closed, trade, cap) ==
    LET all == Append(closed, trade)
    IN IF Len(all) > cap THEN SubSeq(all, 1, cap) ELSE all

\* lines 824-826: append with the history cap
AppendCapped(closed, trade, cap) ==
    LET all == Append(closed, trade)
    IN IF Len(all) > cap THEN SubSeq(all, Len(all) - cap + 1, Len(all)) ELSE all

\* lines 776-833 for one transaction of the page
RecordClose(r, tx, transactions, existing_closed_ids, previous_open_trades, current_open_trade_ids, cap) ==
    IF ~(tx.type = "TRADE_CLOSE" /\ tx.tradeID # None) THEN r
    ELSE IF tx.tradeID \notin r.session_trade_ids THEN r
    ELSE IF tx.tradeID \in existing_closed_ids \/ tx.tradeID \in current_open_trade_ids THEN r
    ELSE LET j == OpeningFill(transactions, tx, 1)
             fill_price == IF j > 0 THEN transactions[j].price ELSE tx.price
             fill_units == IF j > 0 THEN transactions[j].units ELSE 0
             fill_time == IF j > 0 THEN transactions[j].time ELSE tx.time
             prev == fill_units = 0 /\ tx.tradeID \in DOMAIN previous_open_trades
             open_price == IF prev THEN previous_open_trades[tx.tradeID].open_price ELSE fill_price
             units == IF prev THEN previous_open_trades[tx.tradeID].units ELSE fill_units
             open_time == IF prev THEN previous_open_trades[tx.tradeID].open_time ELSE fill_time
         IN IF open_time = NoTime \/ tx.time = NoTime
            THEN r
            ELSE [r EXCEPT
                     !.closed_trades = AppendCapped(@,
                         [ id |-> tx.tradeID, instrument |-> tx.instrument,
                           open_time |-> open_time, close_time |-> tx.time,
                           open_price |-> open_price, close_price |-> tx.price,
                           units |-> IF units # 0 THEN units ELSE tx.units,
                           realized_pl |-> tx.pl ], cap),
                     !.winning_trades = IF tx.pl > 0 THEN @ + 1 ELSE @,
                     !.losing_trades = IF tx.pl < 0 THEN @ + 1 ELSE @]

RECURSIVE RecordCloses(_, _, _, _, _, _, _)
RecordCloses(r, transactions, i, existing_closed_ids, previous_open_trades, current_open_trade_ids, cap) ==
    IF i > Len(transactions) THEN r
    ELSE RecordCloses(RecordClose(r, transactions[i], transactions, existing_closed_ids,
                                  previous_open_trades, current_open_trade_ids, cap),
                      transactions, i + 1, existing_closed_ids, previous_open_trades,
                      current_open_trade_ids, cap)

SeqIds(closed) == {closed[i].id : i \in DOMAIN closed}
CountWhere(closed, sign) ==
    Cardinality({i \in DOMAIN closed :
                    IF sign > 0 THEN closed[i].realized_pl > 0 ELSE closed[i].realized_pl < 0})

\* lines 767-833: a page of transactions answered
ProcessTransactions(r, transactions, previous_open_trades, current_open_trade_ids, cap) ==
    LET r1 == IF transactions # << >>
              THEN [r EXCEPT !.last_transaction_time = transactions[Len(transactions)].time]
              ELSE r
    IN RecordCloses(r1, transactions, 1, SeqIds(r.closed_trades), previous_open_trades,
                    current_open_trade_ids, cap)

\* RecountTrades that takes every closed trade for a winning one
RecountTrades_all_winning(r) ==
    LET actual_winning == Len(r.closed_trades)
        actual_losing == 0
        fix == /\ Len(r.closed_trades) > 0
               /\ (r.winning_trades # actual_winning \/ r.losing_trades # actual_losing)
    IN [r EXCEPT !.winning_trades = IF fix THEN actual_winning ELSE @,
                 !.losing_trades = IF fix THEN actual_losing ELSE @,
                 !.total_trades = Len(r.closed_trades) + Cardinality(DOMAIN r.open_trades)]

\* lines 839-852: the counters recomputed from the trade lists
RecountTrades(r) ==
    LET actual_winning == CountWhere(r.closed_trades, 1)
        actual_losing == CountWhere(r.closed_trades, -1)
        fix == /\ Len(r.closed_trades) > 0
               /\ (r.winning_trades # actual_winning \/ r.losing_trades # actual_losing)
    IN [r EXCEPT !.winning_trades = IF fix THEN actual_winning ELSE @,
                 !.losing_trades = IF fix THEN actual_losing ELSE @,
                 !.total_trades = Len(r.closed_trades) + Cardinality(DOMAIN r.open_trades)]

\* the pass is over (it returned, or line 874 caught an exception): line 511,
\* and the iteration goes on without an await
MetricsReturn(t, s, r) ==
    /\ SetObj(s, [r EXCEPT !.next_metrics_update = tasks[t].iter_now + METRICS_REFRESH_SECONDS])
    /\ tasks' = [tasks EXCEPT ![t] = [@ EXCEPT !.pc = "after_metrics",
                                              !.previous_open_trades = << >>,
                                              !.current_open_trade_ids = {}]]
    /\ running' = Me(t)
    /\ ev' = {Event("metrics_returned", s, Me(t), 0)}

\* lines 668-678: the account summary answered
metrics_summary(t, ok, account) ==
    /\ Idle
    /\ tasks[t].pc = "m_summary" /\ ~tasks[t].must_cancel
    /\ LET s == tasks[t].sid
           r == Obj(s)
       IN IF ~ok
          THEN MetricsReturn(t, s, r)
          ELSE /\ SetObj(s, [r EXCEPT !.current_balance = account.balance,
                                      !.equity = account.NAV,
                                      !.unrealized_pl = account.unrealizedPL,
                                      !.realized_pl = account.balance - r.initial_balance,
                                      !.margin_used = account.marginUsed,
                                      !.margin_available = account.marginAvailable])
               /\ tasks' = [tasks EXCEPT ![t].pc = "m_positions"]
               /\ running' = NoOne
               /\ ev' = {Event("get_positions", s, Me(t), 0)}
    /\ UNCHANGED <<running_tasks, clients, calls, now, bt, mgr, risk_paused, ops>>
    /\ ret' = NoReturn

\* lines 679-696: session.positions rebuilt from a listing
RECURSIVE RebuildPositions(_, _, _)
RebuildPositions(acc, listing, i) ==
    IF i > Len(listing) THEN acc
    ELSE RebuildPositions(
             IF Abs(NetUnits(listing[i])) > 0
             THEN Put(acc, listing[i].instrument,
                      [instrument |-> listing[i].instrument, units |-> NetUnits(listing[i])])
             ELSE acc,
             listing, i + 1)

\* lines 678-699: the positions answered
metrics_positions(t, ok, listing) ==
    /\ Idle
    /\ tasks[t].pc = "m_positions" /\ ~tasks[t].must_cancel
    /\ LET s == tasks[t].sid
           r == Obj(s)
       IN IF ~ok
          THEN MetricsReturn(t, s, r)
          ELSE /\ SetObj(s, [r EXCEPT !.positions = RebuildPositions(<< >>, listing, 1)])
               /\ tasks' = [tasks EXCEPT ![t].pc = "m_trades"]
               /\ running' = NoOne
               /\ ev' = {Event("get_trades", s, Me(t), 0)}
    /\ UNCHANGED <<running_tasks, clients, calls, now, bt, mgr, risk_paused, ops>>
    /\ ret' = NoReturn

\* lines 699-766 (and 839-875 when no transactions are fetched): the open
\* trades answered
metrics_trades(t, ok, trades) ==
    /\ Idle
    /\ tasks[t].pc = "m_trades" /\ ~tasks[t].must_cancel
    /\ LET s == tasks[t].sid
           r == Obj(s)
           tk == tasks[t]
           previous_open_trades == r.open_trades
           acc == TrackTrades([open_trades |-> << >>,
                               session_trade_ids |-> r.session_trade_ids,
                               open_time_str |-> << >>,
                               failed |-> FALSE],
                              trades, 1, r.instrument, r.start_time)
           tracked == [r EXCEPT !.open_trades = acc.open_trades,
                                !.session_trade_ids = acc.session_trade_ids]
           newly_closed_ids == DOMAIN previous_open_trades \ DOMAIN acc.open_trades
           should_fetch_transactions ==
               /\ r.start_time # NoTime
               /\ (newly_closed_ids # {} \/ tk.iter_now >= r.next_transaction_sync)
       IN IF ~ok
          THEN MetricsReturn(t, s, r)
          ELSE IF acc.failed
          THEN MetricsReturn(t, s, tracked)
          ELSE IF should_fetch_transactions
          THEN /\ SetObj(s, tracked)
               /\ tasks' = [tasks EXCEPT ![t] =
                              [tk EXCEPT !.pc = "m_tx",
                                         !.previous_open_trades = previous_open_trades,
                                         !.current_open_trade_ids = DOMAIN acc.open_trades]]
               /\ running' = NoOne
               /\ ev' = {Event("get_transactions", s, Me(t), 0)}
          ELSE MetricsReturn(t, s, RecountTrades(tracked))
    /\ UNCHANGED <<running_tasks, clients, calls, now, bt, mgr, risk_paused, ops>>
    /\ ret' = NoReturn

\* lines 767-875: the transactions answered
metrics_transactions(t, ok, transactions) ==
    /\ Idle
    /\ tasks[t].pc = "m_tx" /\ ~tasks[t].must_cancel
    /\ LET s == tasks[t].sid
           r == Obj(s)
           tk == tasks[t]
           processed == IF ok
                        THEN ProcessTransactions(r, transactions, tk.previous_open_trades,
                                                 tk.current_open_trade_ids, MAX_CLOSED_TRADES)
                        ELSE r
           synced == [processed EXCEPT !.next_transaction_sync =
                                          tk.iter_now + TRANSACTION_REFRESH_SECONDS]
       IN MetricsReturn(t, s, RecountTrades(synced))
    /\ UNCHANGED <<running_tasks, clients, calls, now, bt, mgr, risk_paused, ops>>
    /\ ret' = NoReturn

\* ------------------------------------------------------------ stop_session
Caller(c) == <<"call", c>>

\* stop_session raised: the caller sees the exception, the status stays as it is
StopRaised(c, s) ==
    /\ calls' = [calls EXCEPT ![c] = NoCall]
    /\ Returned(calls[c].op, s, "raised")
    /\ running' = NoOne
    /\ ev' = {Event("stop_raised", s, Caller(c), 0)}
    /\ UNCHANGED <<sessions, detached>>

\* StopReturn that marks every session on the stopped session's account and
\* instrument STOPPED, not only the session itself
StopReturn_stops_shared(c, s, r, cl) ==
    /\ IF s \in DOMAIN sessions
       THEN /\ sessions' = [x \in DOMAIN sessions |->
                              IF x = s THEN [r EXCEPT !.status = "stopped"]
                              ELSE IF /\ sessions[x].account_id = r.account_id
                                      /\ sessions[x].instrument = r.instrument
                              THEN [sessions[x] EXCEPT !.status = "stopped"]
                              ELSE sessions[x]]
            /\ UNCHANGED detached
       ELSE SetObj(s, [r EXCEPT !.status = "stopped"])
    /\ ev' = {Event("stop_returned", s, Caller(c), 0)}
    /\ IF cl.op = "delete"
       THEN /\ calls' = [calls EXCEPT ![c] = [cl EXCEPT !.pc = "deleting"]]
            /\ running' = Caller(c)
            /\ ret' = NoReturn
       ELSE /\ calls' = [calls EXCEPT ![c] = NoCall]
            /\ running' = NoOne
            /\ Returned("stop", s, "ok")

\* line 360: stop_session returns; a delete_session that called it goes on
StopReturn(c, s, r, cl) ==
    /\ SetObj(s, [r EXCEPT !.status = "stopped"])
    /\ ev' = {Event("stop_returned", s, Caller(c), 0)}
    /\ IF cl.op = "delete"
       THEN /\ calls' = [calls EXCEPT ![c] = [cl EXCEPT !.pc = "deleting"]]
            /\ running' = Caller(c)
            /\ ret' = NoReturn
       ELSE /\ calls' = [calls EXCEPT ![c] = NoCall]
            /\ running' = NoOne
            /\ Returned("stop", s, "ok")

\* lines 271-284: mark the session, cancel the task and await it.  op is
\* "stop", or "delete" when delete_session makes the call (line 400).
StopBegin(c, s, op) ==
    /\ SetObj(s, [sessions[s] EXCEPT !.status = "stopping"])
    /\ ev' = {}
    /\ IF s \in DOMAIN running_tasks
       THEN LET t == running_tasks[s]
            IN /\ tasks' = [tasks EXCEPT ![t].must_cancel = ~TaskDone(t)]
               /\ calls' = [calls EXCEPT ![c] =
                               [NoCall EXCEPT !.op = op, !.sid = s, !.pc = "await_task", !.task = t]]
               /\ running' = IF TaskDone(t) THEN Caller(c) ELSE NoOne
       ELSE /\ calls' = [calls EXCEPT ![c] = [NoCall EXCEPT !.op = op, !.sid = s, !.pc = "joined"]]
            /\ running' = Caller(c)
            /\ UNCHANGED tasks

stop_session(s) ==
    /\ Issue
    /\ \E c \in CallIds : CallFree(c)
    /\ ops' = ops - 1
    /\ UNCHANGED <<running_tasks, clients, now, bt, mgr, risk_paused>>
    /\ IF ~Registered(s)
       THEN /\ Returned("stop", s, "not_found")
            /\ ev' = {}
            /\ UNCHANGED <<sessions, detached, tasks, calls, running>>
       ELSE /\ StopBegin(FreeCall, s, "stop")
            /\ ret' = NoReturn

\* lines 285-303 and 348-351: the task is over; pick what to close
stop_joined(c) ==
    /\ \/ calls[c].pc = "joined" /\ running = Caller(c)
       \/ calls[c].pc = "await_task" /\ TaskDone(calls[c].task)
                                     /\ (Idle \/ running = Caller(c))
    /\ LET s == calls[c].sid
           r == Obj(s)
           cl == calls[c]
           awaited == cl.pc = "await_task"
       IN IF awaited /\ tasks[cl.task].outcome = "raised"
          THEN StopRaised(c, s) /\ UNCHANGED running_tasks
          ELSE IF awaited /\ s \notin DOMAIN running_tasks
          THEN StopRaised(c, s) /\ UNCHANGED running_tasks
          ELSE /\ running_tasks' = Restrict(running_tasks, DOMAIN running_tasks \ {s})
               /\ IF s \notin clients
                  THEN StopRaised(c, s)
                  ELSE IF other_sessions(s) # {}
                  THEN IF Abs(r.session_position_units) > 0
                       THEN /\ calls' = [calls EXCEPT ![c] =
                                           [cl EXCEPT !.pc = "co_positions", !.task = 0, !.co = TRUE]]
                            /\ running' = NoOne
                            /\ ev' = {Event("get_positions", s, Caller(c), 0)}
                            /\ UNCHANGED <<sessions, detached>>
                            /\ ret' = NoReturn
                       ELSE StopReturn(c, s, r, [cl EXCEPT !.task = 0, !.co = TRUE])
                  ELSE /\ calls' = [calls EXCEPT ![c] = [cl EXCEPT !.pc = "all_positions", !.task = 0]]
                       /\ running' = NoOne
                       /\ ev' = {Event("get_positions", s, Caller(c), 0)}
                       /\ UNCHANGED <<sessions, detached>>
                       /\ ret' = NoReturn
    /\ UNCHANGED <<clients, tasks, now, bt, mgr, risk_paused, ops>>

\* CloseUnits without the min/max against the session's own units: the whole
\* net position of the account is closed
CloseUnits_whole_net(session_position_units, net_units) ==
    IF session_position_units > 0 /\ net_units > 0
    THEN net_units
    ELSE IF session_position_units < 0 /\ net_units < 0
    THEN net_units
    ELSE 0

\* lines 313-343: the units of the broker's net position that the session closes
\* (0: no order)
CloseUnits(session_position_units, net_units) ==
    IF session_position_units > 0 /\ net_units > 0
    THEN Min(session_position_units, net_units)
    ELSE IF session_position_units < 0 /\ net_units < 0
    THEN Max(session_position_units, net_units)
    ELSE 0

\* lines 303-347: the positions answered, other sessions share the instrument
stop_co_positions(c, ok, listing) ==
    /\ Idle
    /\ calls[c].pc = "co_positions"
    /\ LET s == calls[c].sid
           r == Obj(s)
           cl == calls[c]
           i == IF ok THEN FirstIndex(listing, r.instrument, 1) ELSE 0
           close_units == IF i > 0 THEN CloseUnits(r.session_position_units, NetUnits(listing[i])) ELSE 0
       IN IF i = 0
          THEN StopReturn(c, s, r, cl)
          ELSE IF close_units # 0
          THEN /\ calls' = [calls EXCEPT ![c] =
                              [cl EXCEPT !.pc = "co_order",
                                         !.owned = Abs(r.session_position_units),
                                         !.closed = Abs(close_units)]]
               /\ running' = NoOne
               /\ ev' = {Event("create_market_order", s, Caller(c), -close_units)}
               /\ UNCHANGED <<sessions, detached>>
               /\ ret' = NoReturn
          ELSE StopReturn(c, s, [r EXCEPT !.session_position_units = 0], cl)
    /\ UNCHANGED <<running_tasks, clients, tasks, now, bt, mgr, risk_paused, ops>>

\* lines 319-347: the closing order answered
stop_co_order(c, ok) ==
    /\ Idle
    /\ calls[c].pc = "co_order"
    /\ LET s == calls[c].sid
           r == Obj(s)
       IN StopReturn(c, s, IF ok THEN [r EXCEPT !.session_position_units = 0] ELSE r, calls[c])
    /\ UNCHANGED <<running_tasks, clients, tasks, now, bt, mgr, risk_paused, ops>>

\* lines 351-358: the positions answered, no other session shares the instrument
stop_all_positions(c, ok, listing) ==
    /\ Idle
    /\ calls[c].pc = "all_positions"
    /\ LET s == calls[c].sid
           r == Obj(s)
           cl == calls[c]
           i == IF ok THEN FirstIndex(listing, r.instrument, 1) ELSE 0
       IN IF ~ok
          THEN StopReturn(c, s, r, cl)
          ELSE IF i > 0
          THEN /\ calls' = [calls EXCEPT ![c] = [cl EXCEPT !.pc = "all_close",
                                                         !.owned = Abs(r.session_position_units),
                                                         !.closed = Abs(NetUnits(listing[i]))]]
               /\ running' = NoOne
               /\ ev' = {Event("close_position", s, Caller(c), NetUnits(listing[i]))}
               /\ UNCHANGED <<sessions, detached>>
               /\ ret' = NoReturn
          ELSE StopReturn(c, s, [r EXCEPT !.session_position_units = 0], cl)
    /\ UNCHANGED <<running_tasks, clients, tasks, now, bt, mgr, risk_paused, ops>>

\* lines 355-358: the close of the whole position answered
stop_all_close(c, ok) ==
    /\ Idle
    /\ calls[c].pc = "all_close"
    /\ LET s == calls[c].sid
           r == Obj(s)
       IN StopReturn(c, s, IF ok THEN [r EXCEPT !.session_position_units = 0] ELSE r, calls[c])
    /\ UNCHANGED <<running_tasks, clients, tasks, now, bt, mgr, risk_paused, ops>>

\* ---------------------------------------------------------- delete_session
\* lines 402-410: drop the session and its client.  The object lives on while
\* a coroutine other than this call holds a reference to it.
HeldByOthers(s, c) ==
    \/ \E t \in TaskIds : TaskLive(t) /\ tasks[t].sid = s
    \/ \E d \in CallIds : d # c /\ ~CallFree(d) /\ calls[d].sid = s

Unregister(s, c) ==
    /\ sessions' = Restrict(sessions, DOMAIN sessions \ {s})
    /\ detached' = IF HeldByOthers(s, c) THEN Put(detached, s, sessions[s]) ELSE detached
    /\ clients' = clients \ {s}

delete_session(s) ==
    /\ Issue
    /\ \E c \in CallIds : CallFree(c)
    /\ ops' = ops - 1
    /\ UNCHANGED <<running_tasks, now, bt, mgr, risk_paused>>
    /\ IF ~Registered(s)
       THEN /\ Returned("delete", s, "ignored")
            /\ ev' = {}
            /\ UNCHANGED <<sessions, detached, clients, tasks, calls, running>>
       ELSE IF sessions[s].status = "running"
       THEN /\ StopBegin(FreeCall, s, "delete")
            /\ UNCHANGED <<clients>>
            /\ ret' = NoReturn
       ELSE /\ Unregister(s, 0)
            /\ Returned("delete", s, "ok")
            /\ ev' = {}
            /\ UNCHANGED <<tasks, calls, running>>

\* lines 402-410 after the stop_session of line 400 returned
delete_rest(c) ==
    /\ calls[c].pc = "deleting" /\ running = Caller(c)
    /\ LET s == calls[c].sid
       IN IF Registered(s)
          THEN /\ Unregister(s, c)
               /\ Returned("delete", s, "ok")
          ELSE /\ Returned("delete", s, "raised")
               /\ UNCHANGED <<sessions, detached, clients>>
    /\ calls' = [calls EXCEPT ![c] = NoCall]
    /\ running' = NoOne
    /\ ev' = {}
    /\ UNCHANGED <<running_tasks, tasks, now, bt, mgr, risk_paused, ops>>

\* ------------------------------------------------ recover_orphaned_positions
\* line 935: the first listed position whose instrument no session tracks
\* (0 when there is none)
RECURSIVE FirstOrphan(_, _, _)
FirstOrphan(listing, tracked, i) ==
    IF i > Len(listing) THEN 0
    ELSE IF listing[i].instrument \notin tracked THEN i
    ELSE FirstOrphan(listing, tracked, i + 1)

\* the function returns: every exception is caught (lines 911, 953, 972, 975)
RecoverReturn(c) ==
    /\ calls' = [calls EXCEPT ![c] = NoCall]
    /\ Returned("recover", None, "ok")
    /\ ev' = {}

\* lines 931-960: walk the positions up to the next close_position that is
\* awaited; without auto_close the orphans are only logged
RecoverNext(c, cl, todo) ==
    LET i == FirstOrphan(todo, cl.tracked, 1)
    IN IF i = 0 \/ ~cl.auto
       THEN RecoverReturn(c)
       ELSE /\ calls' = [calls EXCEPT ![c] =
                           [cl EXCEPT !.pc = "r_close",
                                      !.closing = todo[i].instrument,
                                      !.todo = SubSeq(todo, i + 1, Len(todo))]]
            /\ ret' = NoReturn
            /\ ev' = {Event("close_position", None, Caller(c), 0)}

\* lines 886-918: up to the first await.  env_account: OANDA_ACCOUNT_ID is
\* set; client_ok: the client's constructor finds its configuration.
recover_orphaned_positions(auto_close, env_account, client_ok) ==
    /\ Issue
    /\ \E c \in CallIds : CallFree(c)
    /\ ops' = ops - 1
    /\ UNCHANGED <<sessions, detached, running_tasks, clients, tasks, now, bt, mgr, risk_paused, running>>
    /\ IF ~client_ok
       THEN /\ Returned("recover", None, "ok")
            /\ ev' = {}
            /\ UNCHANGED calls
       ELSE /\ calls' = [calls EXCEPT ![FreeCall] =
                           [NoCall EXCEPT !.op = "recover", !.auto = auto_close,
                                          !.pc = IF env_account THEN "r_positions" ELSE "r_accounts"]]
            /\ ret' = NoReturn
            /\ ev' = {Event(IF env_account THEN "get_positions" ELSE "get_accounts",
                            None, Caller(FreeCall), 0)}

\* lines 899-913: get_accounts answered or failed; the finally block's
\* temp_client.aclose raises AttributeError (OandaTradingClient defines no
\* aclose), line 911 catches it and the function returns
recover_accounts(c, ok) ==
    /\ Idle
    /\ calls[c].op = "recover" /\ calls[c].pc = "r_accounts"
    /\ RecoverReturn(c)
    /\ UNCHANGED <<sessions, detached, running_tasks, clients, tasks, now, bt, mgr, risk_paused, running, ops>>

\* lines 918-960: the positions answered; tracked_instruments is computed here
recover_positions(c, ok, listing) ==
    /\ Idle
    /\ calls[c].op = "recover" /\ calls[c].pc = "r_positions"
    /\ IF ~ok \/ listing = << >>
       THEN RecoverReturn(c)
       ELSE RecoverNext(c, [calls[c] EXCEPT !.tracked =
                                {sessions[x].instrument : x \in DOMAIN sessions}], listing)
    /\ UNCHANGED <<sessions, detached, running_tasks, clients, tasks, now, bt, mgr, risk_paused, running, ops>>

\* lines 951-954 and on: a close_position answered or failed
recover_close(c, ok) ==
    /\ Idle
    /\ calls[c].op = "recover" /\ calls[c].pc = "r_close"
    /\ RecoverNext(c, [calls[c] EXCEPT !.closing = None], calls[c].todo)
    /\ UNCHANGED <<sessions, detached, running_tasks, clients, tasks, now, bt, mgr, risk_paused, running, ops>>

\* ------------------------------------------------------------ run_backtest
\* Prices and money of the backtest are whole ten-thousandths, so that a
\* slippage in whole percent and a fee in whole percent (hundreds of basis
\* points) lose nothing; a position is a whole number of units; a bar is its
\* timestamp and its close.
Scale == 10000
Price(c) == c * Scale

BacktestBar(ts, c) == [ts |-> ts, c |-> c]

\* line 47: the fill price, slippage in percent
FillPrice(c, target, pos, slippage) ==
    c * (100 + slippage * (IF target > pos THEN 1 ELSE -1)) * (Scale \div 100)

\* GrossPnl with entry and exit swapped
GrossPnl_reversed(px, entry_px, pos, notional_per_unit) ==
    (entry_px - px) * pos * notional_per_unit

\* line 51
GrossPnl(px, entry_px, pos, notional_per_unit) ==
    (px - entry_px) * pos * notional_per_unit

\* line 52 (exact for a fee of whole percent: px is a multiple of 100)
Fee(pos, notional_per_unit, fee_bps, px) ==
    (Abs(pos) * notional_per_unit * fee_bps * px) \div 10000

\* MarkToMarket that values every open position at nothing
MarkToMarket_flat(c, entry_px, pos, notional_per_unit) ==
    0

\* lines 61-63
MarkToMarket(c, entry_px, pos, notional_per_unit) ==
    IF pos # 0 /\ entry_px # NoPrice
    THEN (Price(c) - entry_px) * pos * notional_per_unit
    ELSE 0

\* lines 31-42: the state of a run before its first bar
BacktestStarted(bars, notional_per_unit, slippage, fee_bps, initial_equity) ==
    [NoBacktest EXCEPT !.pc = "bars", !.bars = bars, !.notional_per_unit = notional_per_unit,
                       !.slippage = slippage, !.fee_bps = fee_bps,
                       !.initial_equity = initial_equity, !.equity = initial_equity]

\* lines 44-64: one pass of the loop; target is what on_bar leaves in
\* ctx.position
run_backtest_bar(target) ==
    /\ bt.pc = "bars"
    /\ Len(bt.targets) < Len(bt.bars)
    /\ LET i == Len(bt.targets) + 1
           bar == bt.bars[i]
           px == FillPrice(bar.c, target, bt.pos, bt.slippage)
           closes == target # bt.pos /\ bt.pos # 0 /\ bt.entry_px # NoPrice
           pnl == GrossPnl(px, bt.entry_px, bt.pos, bt.notional_per_unit)
           fee == Fee(bt.pos, bt.notional_per_unit, bt.fee_bps, px)
           equity == IF closes THEN bt.equity + pnl - fee ELSE bt.equity
           trades == IF closes
                     THEN Append(bt.trades,
                                 [ entry_ts |-> IF i > 1 THEN bt.bars[i - 1].ts ELSE bar.ts,
                                   exit_ts |-> bar.ts, entry_px |-> bt.entry_px,
                                   exit_px |-> px, pnl |-> pnl - fee ])
                     ELSE bt.trades
           entry_px == IF target = bt.pos THEN bt.entry_px
                       ELSE IF target # 0 THEN px
                       ELSE IF closes THEN NoPrice
                       ELSE bt.entry_px
           mtm == MarkToMarket(bar.c, entry_px, target, bt.notional_per_unit)
       IN bt' = [bt EXCEPT !.targets = Append(@, target),
                           !.equity = equity,
                           !.trades = trades,
                           !.entry_px = entry_px,
                           !.pos = target,
                           !.curve = Append(@, [ts |-> bar.ts, equity |-> equity + mtm])]
    /\ UNCHANGED <<sessions, detached, running_tasks, clients, tasks, calls, now, running, ops,
                   ret, risk_paused, ev, mgr>>

\* lines 75-103: the loop is over; final_equity
run_backtest_return ==
    /\ bt.pc = "bars"
    /\ Len(bt.targets) = Len(bt.bars)
    /\ bt' = [bt EXCEPT !.pc = "done",
                        !.final_equity = IF bt.curve # << >>
                                         THEN bt.curve[Len(bt.curve)].equity
                                         ELSE bt.initial_equity]
    /\ UNCHANGED <<sessions, detached, running_tasks, clients, tasks, calls, now, running, ops,
                   ret, risk_paused, ev, mgr>>

\* ------------------------------------------- core/manager.py, core/runner.py
Finished(i) == mgr.runners[i].pc \in {"done", "failed"}

LiveRunners == {i \in RunnerIds : mgr.runners[i].pc \notin {"unused", "done", "failed"}}

FreeRunners == {i \in RunnerIds : mgr.runners[i].pc = "unused"}

\* the awaited task is done and stop() calls suspended on it are due to run:
\* their wake-ups are queued back to back when the task ends, ahead of any
\* request that arrives later
Woken == mgr.joining > 0 /\ mgr.task # 0 /\ Finished(mgr.task)

ManagerFrame ==
    /\ ev' = {}
    /\ UNCHANGED <<sessions, detached, running_tasks, clients, tasks, calls, now, running,
                   risk_paused, bt>>

\* manager.py lines 21-28: StrategyManager.start
manager_start ==
    /\ ops > 0 /\ ops' = ops - 1
    /\ ~Woken
    /\ IF mgr.state # "IDLE"
       THEN /\ Returned("manager_start", None, "RuntimeError")
            /\ UNCHANGED mgr
       ELSE /\ FreeRunners # {}
            /\ LET i == CHOOSE x \in FreeRunners : \A y \in FreeRunners : x <= y
               IN mgr' = [mgr EXCEPT !.state = "RUNNING", !.task = i,
                                     !.runners[i] = [NoRunner EXCEPT !.pc = "feed_start"]]
            /\ Returned("manager_start", None, "ok")
    /\ ManagerFrame

\* manager.py lines 30-37: StrategyManager.stop up to `await self._task`.
\* Awaiting a task that has ended does not suspend: it returns, or re-raises
\* the exception run() ended with, at once.
manager_stop ==
    /\ ops > 0 /\ ops' = ops - 1
    /\ ~Woken
    /\ IF mgr.state = "IDLE"
       THEN /\ Returned("manager_stop", None, "RuntimeError")
            /\ UNCHANGED mgr
       ELSE LET i == mgr.task
                flagged == [mgr EXCEPT !.state = "STOPPING", !.runners[i].stopping = TRUE]
            IN IF mgr.runners[i].pc = "done"
               THEN /\ mgr' = [flagged EXCEPT !.state = "IDLE"]
                    /\ Returned("manager_stop", None, "ok")
               ELSE IF mgr.runners[i].pc = "failed"
               THEN /\ mgr' = flagged
                    /\ Returned("manager_stop", None, "runner_error")
               ELSE /\ mgr' = [flagged EXCEPT !.joining = @ + 1]
                    /\ ret' = NoReturn
    /\ ManagerFrame

\* manager.py lines 37-39: a suspended stop() goes on when the task has ended
manager_stop_joined ==
    /\ Woken
    /\ IF mgr.runners[mgr.task].pc = "done"
       THEN /\ mgr' = [mgr EXCEPT !.state = "IDLE", !.joining = @ - 1]
            /\ Returned("manager_stop", None, "ok")
       ELSE /\ mgr' = [mgr EXCEPT !.joining = @ - 1]
            /\ Returned("manager_stop", None, "runner_error")
    /\ UNCHANGED ops
    /\ ManagerFrame

RunnerStep(i, runner) ==
    /\ mgr' = [mgr EXCEPT !.runners[i] = runner]
    /\ ret' = NoReturn
    /\ UNCHANGED ops
    /\ ManagerFrame

\* runner.py lines 91-95: the outer handler logs and re-raises; finally runs
Fatal(rn) == [rn EXCEPT !.fatal = TRUE, !.pc = "on_stop"]

\* runner.py line 26: feed.start returns or raises
runner_feed_start(i, ok) ==
    /\ mgr.runners[i].pc = "feed_start"
    /\ RunnerStep(i, IF ok THEN [mgr.runners[i] EXCEPT !.pc = "on_start"]
                      ELSE Fatal(mgr.runners[i]))

\* runner.py line 27: strategy.on_start returns or raises
runner_on_start(i, ok) ==
    /\ mgr.runners[i].pc = "on_start"
    /\ RunnerStep(i, IF ok THEN [mgr.runners[i] EXCEPT !.pc = "next_tick"]
                      ELSE Fatal(mgr.runners[i]))

\* runner.py lines 29-62: the feed yields a tick, ends, or raises.  A tick
\* taken after stop() breaks out of the loop; an invalid tick is skipped; a
\* valid one is counted and handed to strategy.on_tick.
runner_next_tick(i, outcome, valid) ==
    /\ mgr.runners[i].pc = "next_tick"
    /\ LET rn == mgr.runners[i]
       IN CASE outcome = "tick" ->
                 IF rn.stopping THEN RunnerStep(i, [rn EXCEPT !.pc = "on_stop"])
                 ELSE IF ~valid THEN RunnerStep(i, rn)
                 ELSE /\ rn.num_ticks < MaxTicks
                      /\ RunnerStep(i, [rn EXCEPT !.pc = "on_tick", !.num_ticks = @ + 1])
            [] outcome = "end" -> RunnerStep(i, [rn EXCEPT !.pc = "on_stop"])
            [] outcome = "raise" -> RunnerStep(i, Fatal(rn))

\* runner.py lines 62-89: on_tick returns and the Metrics are queued, or it
\* raises and the tick is dropped (lines 86-89); the loop goes on either way
runner_on_tick(i, ok) ==
    /\ mgr.runners[i].pc = "on_tick"
    /\ mgr' = [mgr EXCEPT !.runners[i].pc = "next_tick", !.q = IF ok THEN @ + 1 ELSE @]
    /\ ret' = NoReturn
    /\ UNCHANGED ops
    /\ ManagerFrame

\* runner.py lines 96-100: strategy.on_stop; an exception is logged
runner_on_stop(i, ok) ==
    /\ mgr.runners[i].pc = "on_stop"
    /\ RunnerStep(i, [mgr.runners[i] EXCEPT !.pc = "feed_stop"])

\* runner.py lines 101-106: feed.stop; an exception is logged; run() returns,
\* or ends with the exception re-raised at line 93
runner_feed_stop(i, ok) ==
    /\ mgr.runners[i].pc = "feed_stop"
    /\ RunnerStep(i, [mgr.runners[i] EXCEPT
                         !.pc = IF mgr.runners[i].fatal THEN "failed" ELSE "done"])

FeedOutcomes == {"tick", "end", "raise"}

RunnerSteps(Oks, Outcomes) ==
    \/ \E i \in RunnerIds, ok \in Oks : runner_feed_start(i, ok)
    \/ \E i \in RunnerIds, ok \in Oks : runner_on_start(i, ok)
    \/ \E i \in RunnerIds, o \in Outcomes, valid \in BOOLEAN : runner_next_tick(i, o, valid)
    \/ \E i \in RunnerIds, ok \in Oks : runner_on_tick(i, ok)
    \/ \E i \in RunnerIds, ok \in BOOLEAN : runner_on_stop(i, ok)
    \/ \E i \in RunnerIds, ok \in BOOLEAN : runner_feed_stop(i, ok)

\* ------------------------------------------------------------------ clock
Tick ==
    /\ Idle
    /\ now + TickSeconds <= MaxTime
    /\ now' = now + TickSeconds
    /\ ev' = {}
    /\ UNCHANGED <<sessions, detached, running_tasks, clients, tasks, calls, running, ops,
                   risk_paused, bt, mgr>>
    /\ ret' = NoReturn

\* the clock of a specification that runs up to limit
Clock(limit) ==
    /\ Idle
    /\ now + TickSeconds <= limit
    /\ now' = now + TickSeconds
    /\ ev' = {}
    /\ UNCHANGED <<sessions, detached, running_tasks, clients, tasks, calls, running, ops,
                   risk_paused, bt, mgr>>
    /\ ret' = NoReturn

\* the clock of a specification that runs for ever.  Up to limit it ticks; at
\* limit the reading stays and the monotonic times kept by the sessions and
\* the live tasks - the three cursors, the iteration's reading, the end of the
\* sleep - move back by a tick instead, which leaves every comparison with
\* time.monotonic() as a tick leaves it.  Times more than limit in the past are
\* kept at 0.
Earlier(x) == Max(x - TickSeconds, 0)
Rebased(r) ==
    [r EXCEPT !.next_metrics_update = Earlier(@),
              !.next_bar_poll = Earlier(@),
              !.next_transaction_sync = Earlier(@)]
Elapse(limit) ==
    /\ Idle
    /\ IF now + TickSeconds <= limit
       THEN /\ now' = now + TickSeconds
            /\ UNCHANGED <<sessions, detached, tasks>>
       ELSE /\ now' = now
            /\ sessions' = [s \in DOMAIN sessions |-> Rebased(sessions[s])]
            /\ detached' = [s \in DOMAIN detached |-> Rebased(detached[s])]
            /\ tasks' = [t \in TaskIds |->
                            IF TaskLive(t)
                            THEN [tasks[t] EXCEPT !.iter_now = Earlier(@), !.wake = Earlier(@)]
                            ELSE tasks[t]]
    /\ ev' = {}
    /\ UNCHANGED <<running_tasks, clients, calls, running, ops, risk_paused, bt, mgr>>
    /\ ret' = NoReturn

\* ------------------------------------------------- the broker's answers
\* one account summary, and the position listings with at most one position
SteadyAccount == { a \in AccountSummaries : a.balance = 1000 }
FewListings == { l \in PositionListings :
                    l = << >> \/ (l[1].instrument = "EUR_USD" /\ l[1].long = 10000) }
SharedListings == { l \in PositionListings : l # << >> /\ l[1].instrument = "EUR_USD" }
FewCandles == { << >>, <<1>> }
OneCandle == { <<1>> }
DoubleListing ==
    { << [instrument |-> "EUR_USD", long |-> 2 * DefaultMaxPositionSize, short |-> 0] >> }
NoCandles == { << >> }
NoTrades == { << >> }
NoTransactions == { << >> }

\* the broker's open-trades listing: a trade opened when the session starts at
\* time 0, alone or after a trade of another instrument
ListedTrade(id, instrument, openTime) ==
    [ id |-> id, instrument |-> instrument, openTime |-> openTime, price |-> 1,
      currentUnits |-> 100, unrealizedPL |-> 0 ]
TradeListings ==
    { << >>,
      << ListedTrade("t1", "EUR_USD", 0) >>,
      << ListedTrade("t2", OtherInstrument, 0), ListedTrade("t1", "EUR_USD", 0) >> }

\* a page of transactions: empty, or the close of trade t1 at a loss or a gain
TradeClose(id, tradeID, pl) ==
    [ id |-> id, type |-> "TRADE_CLOSE", tradeID |-> tradeID, time |-> 5, pl |-> pl,
      price |-> 1, units |-> -100, instrument |-> "EUR_USD" ]
TransactionPages ==
    { << >>, << TradeClose("x1", "t1", -100) >>, << TradeClose("x1", "t1", 100) >> }

\* open-trades listings of an eventually consistent broker: trade t1 of the
\* session, alone or after another trade of the instrument
StaleListings ==
    { << >>,
      << ListedTrade("t1", "EUR_USD", 0) >>,
      << ListedTrade("t2", "EUR_USD", 0), ListedTrade("t1", "EUR_USD", 0) >> }

\* pages that repeat: no transaction, the close of t1, or two closes of t1
ClosePages ==
    { << >>,
      << TradeClose("x1", "t1", -100) >>,
      << TradeClose("x1", "t1", -100), TradeClose("x2", "t1", 100) >> }

\* the open positions recovery may find: none, one, or two of different
\* instruments in either order
OpenPosition(instrument) == [instrument |-> instrument, long |-> 5000, short |-> 0]
RecoveryListings ==
    { << >>,
      << OpenPosition("EUR_USD") >>,
      << OpenPosition(OtherInstrument) >>,
      << OpenPosition(OtherInstrument), OpenPosition("EUR_USD") >>,
      << OpenPosition("EUR_USD"), OpenPosition(OtherInstrument) >>,
      << OpenPosition(OtherInstrument), OpenPosition("GBP_USD") >> }

\* ---------------------------------------------------------- specification
\* the control calls on the sessions in S, and the steps that complete them
Create(S, Limits, ceiling) ==
    \E s \in S, a \in AccountIds, i \in Instruments, g \in Granularities, l \in Limits :
        create_session(s, a, i, g, l, ceiling)

Start(S, Oks, Accounts) ==
    \/ \E s \in S, ok \in BOOLEAN : start_session(s, ok)
    \/ \E c \in CallIds, ok \in Oks, a \in Accounts : start_session_resume(c, ok, a)

PauseResume(S) ==
    \/ \E s \in S : pause_session(s)
    \/ \E s \in S : resume_session(s)

\* stop_session when no other session shares the instrument
Stop(S, Oks, Listings) ==
    \/ \E s \in S : stop_session(s)
    \/ \E t \in TaskIds : cancelled(t)
    \/ \E c \in CallIds : stop_joined(c)
    \/ \E c \in CallIds, ok \in Oks, l \in Listings : stop_all_positions(c, ok, l)
    \/ \E c \in CallIds, ok \in Oks : stop_all_close(c, ok)

\* stop_session when another session shares the instrument
StopShared(Oks, Listings) ==
    \/ \E c \in CallIds, ok \in Oks, l \in Listings : stop_co_positions(c, ok, l)
    \/ \E c \in CallIds, ok \in Oks : stop_co_order(c, ok)

Delete(S) ==
    \/ \E s \in S : delete_session(s)
    \/ \E c \in CallIds : delete_rest(c)

\* the steps of the trading-loop tasks up to the candle poll
LoopSteps(Oks, Raises, Listings, Candles, Targets) ==
    \/ \E t \in TaskIds, ctor_ok \in Oks, start_ok \in Oks : _trading_loop(t, ctor_ok, start_ok)
    \/ \E t \in TaskIds, ok \in Oks, l \in Listings, start_ok \in Oks :
          trading_loop_sync(t, ok, l, start_ok)
    \/ \E t \in TaskIds, ok \in Oks, raised \in Raises, left \in Targets :
          trading_loop_warmup(t, ok, raised, left)
    \/ \E t \in TaskIds : loop_top(t)
    \/ \E t \in TaskIds : after_metrics(t)
    \/ \E t \in TaskIds, ok \in Oks, bars \in Candles, target \in Targets,
          raised \in Raises : loop_poll(t, ok, bars, target, raised)

\* the steps of a task that executes a change of position
TradeSteps(Oks, Priced) ==
    \/ \E t \in TaskIds, ok \in Oks, priced \in Priced : loop_quote(t, ok, priced)
    \/ \E t \in TaskIds, ok \in Oks, fill \in OrderFills : loop_order(t, ok, fill)

\* the steps of the reconciliation pass up to the open trades
MetricsSteps(Oks, Accounts, Listings, Trades) ==
    \/ \E t \in TaskIds, ok \in Oks, a \in Accounts : metrics_summary(t, ok, a)
    \/ \E t \in TaskIds, ok \in Oks, l \in Listings : metrics_positions(t, ok, l)
    \/ \E t \in TaskIds, ok \in Oks, l \in Trades : metrics_trades(t, ok, l)

TransactionSteps(Oks, Pages) ==
    \E t \in TaskIds, ok \in Oks, p \in Pages : metrics_transactions(t, ok, p)

\* Spec: one session under every control call.  The broker answers the loop
\* without faults and lists no trade; the closing calls of stop_session may fail.
Next ==
    \/ Create({"s1"}, DailyLossLimits, MAX_CONCURRENT_SESSIONS)
    \/ Start({"s1"}, {TRUE}, SteadyAccount)
    \/ PauseResume({"s1"})
    \/ Stop({"s1"}, BOOLEAN, FewListings)
    \/ Delete({"s1"})
    \/ LoopSteps({TRUE}, BOOLEAN, FewListings, FewCandles, {0, 100})
    \/ TradeSteps({TRUE}, {TRUE})
    \/ MetricsSteps({TRUE}, SteadyAccount, FewListings, NoTrades)
    \/ TransactionSteps({TRUE}, NoTransactions)
    \/ Tick

Spec == Init /\ [][Next]_vars

\* SpecShared: two sessions on one account and instrument are created, started
\* and stopped.  The clock stands still and no new bar arrives, so a session's
\* units come from the position found at its start.
InitShared == Constructed /\ ops = MaxOpsShared

NextShared ==
    \/ Create(SessionIds, {100}, MAX_CONCURRENT_SESSIONS)
    \/ Start(SessionIds, {TRUE}, SteadyAccount)
    \/ Stop(SessionIds, {TRUE}, SharedListings)
    \/ StopShared(BOOLEAN, SharedListings)
    \/ LoopSteps({TRUE}, {FALSE}, SharedListings, NoCandles, {0})
    \/ MetricsSteps({TRUE}, SteadyAccount, FewListings, NoTrades)
    \/ TransactionSteps({TRUE}, NoTransactions)

SpecShared == InitShared /\ [][NextShared]_vars

\* SpecRecon: one session is created, started, paused and resumed while the
\* broker's answers to the reconciliation pass vary and may fail.
InitRecon == Constructed /\ ops = MaxOpsRecon

NextRecon ==
    \/ Create({"s1"}, DailyLossLimits, MAX_CONCURRENT_SESSIONS)
    \/ Start({"s1"}, {TRUE}, SteadyAccount)
    \/ PauseResume({"s1"})
    \/ LoopSteps({TRUE}, {FALSE}, {<< >>}, NoCandles, {0})
    \/ MetricsSteps(BOOLEAN, AccountSummaries, {<< >>}, TradeListings)
    \/ TransactionSteps(BOOLEAN, TransactionPages)
    \/ Tick

SpecRecon == InitRecon /\ [][NextRecon]_vars

\* SpecCapacity: an engine whose ceiling on RUNNING sessions is SmallCeiling;
\* two sessions are created, started, paused and resumed.
InitCapacity == Constructed /\ ops = MaxOpsCapacity

NextCapacity ==
    \/ Create(SessionIds, {100}, SmallCeiling)
    \/ Start(SessionIds, {TRUE}, SteadyAccount)
    \/ PauseResume(SessionIds)
    \/ LoopSteps({TRUE}, {FALSE}, {<< >>}, NoCandles, {0})
    \/ MetricsSteps({TRUE}, SteadyAccount, {<< >>}, NoTrades)
    \/ TransactionSteps({TRUE}, NoTransactions)

SpecCapacity == InitCapacity /\ [][NextCapacity]_vars

\* SpecTrades: two sessions on one account and instrument are created and
\* started; the broker lists open trades to their reconciliation passes.
InitTrades == Constructed /\ ops = MaxOpsTrades

NextTrades ==
    \/ Create(SessionIds, {100}, MAX_CONCURRENT_SESSIONS)
    \/ Start(SessionIds, {TRUE}, SteadyAccount)
    \/ LoopSteps({TRUE}, {FALSE}, {<< >>}, NoCandles, {0})
    \/ MetricsSteps({TRUE}, SteadyAccount, {<< >>}, TradeListings)
    \/ TransactionSteps({TRUE}, NoTransactions)

SpecTrades == InitTrades /\ [][NextTrades]_vars

\* SpecOwnLongs: two sessions on one account and instrument start with no
\* position at the broker; each strategy goes long by max_position_size on its
\* first bar, and a stop_session of s1 finds the two longs as one net position.
InitOwnLongs == Constructed /\ ops = MaxOpsOwnLongs

NextOwnLongs ==
    \/ Create(SessionIds, {100}, MAX_CONCURRENT_SESSIONS)
    \/ Start(SessionIds, {TRUE}, SteadyAccount)
    \/ Stop({"s1"}, {TRUE}, DoubleListing)
    \/ StopShared({TRUE}, DoubleListing)
    \/ LoopSteps({TRUE}, {FALSE}, {<< >>}, OneCandle, {100})
    \/ TradeSteps({TRUE}, {TRUE})
    \/ MetricsSteps({TRUE}, SteadyAccount, {<< >>}, NoTrades)
    \/ TransactionSteps({TRUE}, NoTransactions)

SpecOwnLongs == InitOwnLongs /\ [][NextOwnLongs]_vars

\* SpecFaults: one session is created, started and stopped while every broker
\* call, the candle source and the strategy's hooks may fail.
InitFaults == Constructed /\ ops = MaxOpsFaults

NextFaults ==
    \/ Create({"s1"}, {100}, MAX_CONCURRENT_SESSIONS)
    \/ Start({"s1"}, BOOLEAN, SteadyAccount)
    \/ Stop({"s1"}, {TRUE}, FewListings)
    \/ LoopSteps(BOOLEAN, BOOLEAN, {<< >>}, FewCandles, {0, 100})
    \/ TradeSteps(BOOLEAN, {TRUE})
    \/ MetricsSteps(BOOLEAN, SteadyAccount, {<< >>}, NoTrades)
    \/ TransactionSteps(BOOLEAN, NoTransactions)
    \/ Tick

SpecFaults == InitFaults /\ [][NextFaults]_vars

\* SpecUnknown: session s1 is created, started, paused, resumed and stopped
\* while the same calls are made on s2, an ID that is never registered.
InitUnknown == Constructed /\ ops = MaxOpsUnknown

NextUnknown ==
    \/ Create({"s1"}, {100}, MAX_CONCURRENT_SESSIONS)
    \/ Start(SessionIds, {TRUE}, SteadyAccount)
    \/ PauseResume(SessionIds)
    \/ Stop(SessionIds, {TRUE}, FewListings)
    \/ LoopSteps({TRUE}, {FALSE}, {<< >>}, NoCandles, {0})
    \/ MetricsSteps({TRUE}, SteadyAccount, {<< >>}, NoTrades)
    \/ TransactionSteps({TRUE}, NoTransactions)

SpecUnknown == InitUnknown /\ [][NextUnknown]_vars

\* SpecRecover: recover_orphaned_positions runs, with and without auto_close,
\* while session s1 is created, started and paused; every broker call of the
\* recovery may fail.
InitRecover == Constructed /\ ops = MaxOpsRecover

Recover(Oks, Listings) ==
    \/ \E auto_close \in BOOLEAN, env_account \in BOOLEAN, client_ok \in Oks :
          recover_orphaned_positions(auto_close, env_account, client_ok)
    \/ \E c \in CallIds, ok \in Oks : recover_accounts(c, ok)
    \/ \E c \in CallIds, ok \in Oks, l \in Listings : recover_positions(c, ok, l)
    \/ \E c \in CallIds, ok \in Oks : recover_close(c, ok)

NextRecover ==
    \/ Create({"s1"}, {100}, MAX_CONCURRENT_SESSIONS)
    \/ Start({"s1"}, {TRUE}, SteadyAccount)
    \/ PauseResume({"s1"})
    \/ Recover(BOOLEAN, RecoveryListings)
    \/ LoopSteps({TRUE}, {FALSE}, {<< >>}, NoCandles, {0})
    \/ MetricsSteps({TRUE}, SteadyAccount, {<< >>}, NoTrades)
    \/ TransactionSteps({TRUE}, NoTransactions)

SpecRecover == InitRecover /\ [][NextRecover]_vars

\* SpecBacktest: run_backtest on every sequence of at most MaxBars bars with
\* closes of BarCloses, with and without slippage and fees; the strategy may
\* leave any of BacktestTargets in ctx.position on each bar.
BarCloses == {99, 100, 101}
BacktestTargets == {-1, 0, 1}
SlippagePercents == {0, 1}
FeeBps == {0, 100}
NotionalsPerUnit == {1, 2}
DefaultInitialEquity == Price(10000)

RECURSIVE BarSequences(_)
BarSequences(n) ==
    IF n = 0 THEN { << >> }
    ELSE BarSequences(n - 1) \cup
         { Append(b, BacktestBar(Len(b) + 1, c)) :
              b \in {x \in BarSequences(n - 1) : Len(x) = n - 1}, c \in BarCloses }

InitBacktest ==
    /\ sessions = << >>
    /\ detached = << >>
    /\ running_tasks = << >>
    /\ clients = {}
    /\ tasks = [t \in TaskIds |-> NoTask]
    /\ calls = [c \in CallIds |-> NoCall]
    /\ now = 0
    /\ running = NoOne
    /\ ret = NoReturn
    /\ risk_paused = {}
    /\ ev = {}
    /\ ops = 0
    /\ mgr = NoManager
    /\ bt \in { BacktestStarted(bars, n, sl, fee, DefaultInitialEquity) :
                   bars \in BarSequences(MaxBars), n \in NotionalsPerUnit,
                   sl \in SlippagePercents, fee \in FeeBps }

NextBacktest ==
    \/ \E target \in BacktestTargets : run_backtest_bar(target)
    \/ run_backtest_return

SpecBacktest == InitBacktest /\ [][NextBacktest]_vars

\* SpecClamp: one session starts with no position at the broker; its strategy
\* asks for up to twice max_position_size, long or short, on each new bar, and
\* the broker accepts every order.
OverTargets == {-200, 0, 200}
NewBars == { <<1>>, <<2>> }

InitClamp == Constructed /\ ops = MaxOpsClamp

NextClamp ==
    \/ Create({"s1"}, {100}, MAX_CONCURRENT_SESSIONS)
    \/ Start({"s1"}, {TRUE}, SteadyAccount)
    \/ LoopSteps({TRUE}, {FALSE}, {<< >>}, NewBars, OverTargets)
    \/ TradeSteps({TRUE}, {TRUE})
    \/ MetricsSteps({TRUE}, SteadyAccount, {<< >>}, NoTrades)
    \/ TransactionSteps({TRUE}, NoTransactions)
    \/ Tick

SpecClamp == InitClamp /\ [][NextClamp]_vars

\* SpecQuote: one session is created and started; its strategy goes long on
\* the first new bar; the quote call may fail or answer without a price, and
\* the order may fail.
InitQuote == Constructed /\ ops = MaxOpsQuote

NextQuote ==
    \/ Create({"s1"}, DailyLossLimits, MAX_CONCURRENT_SESSIONS)
    \/ Start({"s1"}, {TRUE}, SteadyAccount)
    \/ LoopSteps({TRUE}, {FALSE}, FewListings, NewBars, {0, 100})
    \/ TradeSteps(BOOLEAN, BOOLEAN)
    \/ MetricsSteps({TRUE}, SteadyAccount, {<< >>}, NoTrades)
    \/ TransactionSteps({TRUE}, NoTransactions)
    \/ Tick

SpecQuote == InitQuote /\ [][NextQuote]_vars

\* SpecOrders: one session is created and started; its strategy moves between
\* flat, 1.0 and 2.0 on new bars, the broker accepts or refuses the orders and
\* its fill confirmations carry any of the trade IDs.
ConfirmedFills == SUBSET TradeIds
WideTargets == {0, 100, 200}

InitOrders == Constructed /\ ops = MaxOpsOrders

NextOrders ==
    \/ Create({"s1"}, {100}, MAX_CONCURRENT_SESSIONS)
    \/ Start({"s1"}, {TRUE}, SteadyAccount)
    \/ LoopSteps({TRUE}, {FALSE}, {<< >>}, NewBars, WideTargets)
    \/ \E t \in TaskIds : loop_quote(t, TRUE, TRUE)
    \/ \E t \in TaskIds, ok \in BOOLEAN, fill \in ConfirmedFills : loop_order(t, ok, fill)
    \/ MetricsSteps({TRUE}, SteadyAccount, {<< >>}, NoTrades)
    \/ TransactionSteps({TRUE}, NoTransactions)
    \/ Tick

SpecOrders == InitOrders /\ [][NextOrders]_vars

\* SpecBars: one session is created and started; the candle source answers
\* its polls with no bar or with a bar of any of three timestamps, in any
\* order, and on_bar may raise.
PolledBars == { << >>, <<1>>, <<2>>, <<3>> }

InitBars == Constructed /\ ops = MaxOpsBars

NextBars ==
    \/ Create({"s1"}, {100}, MAX_CONCURRENT_SESSIONS)
    \/ Start({"s1"}, {TRUE}, SteadyAccount)
    \/ LoopSteps({TRUE}, BOOLEAN, {<< >>}, PolledBars, {0})
    \/ MetricsSteps({TRUE}, SteadyAccount, {<< >>}, NoTrades)
    \/ TransactionSteps({TRUE}, NoTransactions)
    \/ Clock(MaxTimeBars)

SpecBars == InitBars /\ [][NextBars]_vars

\* SpecHistory: a session that has been trading for a while.  At clock 15 its
\* loop task sleeps with the reconciliation pass due; closed_trades holds the
\* closes recorded so far, trades "1" to "k", and open_trades the trades the
\* last pass listed.  The broker then lists no open trade and answers with
\* pages that close the open trades in any order.
ClosedTrade(id, pl) ==
    [ id |-> id, instrument |-> "EUR_USD", open_time |-> 0, close_time |-> 5,
      open_price |-> 1, close_price |-> 1, units |-> 100, realized_pl |-> pl ]
History(k) == [i \in 1..k |-> ClosedTrade(ToString(i), 100)]
OpenIds == {ToString(MAX_CLOSED_TRADES + i) : i \in 1..StillOpen}

TradingSession(k) ==
    [PaperTradingSession("A", "EUR_USD", "S5", DefaultMaxPositionSize, 100) EXCEPT
        !.status = "running",
        !.start_time = 0,
        !.initial_balance = 1000,
        !.current_balance = 1000 + 100 * k,
        !.equity = 1000 + 100 * k,
        !.realized_pl = 100 * k,
        !.closed_trades = History(k),
        !.open_trades = [id \in OpenIds |-> OpenTrade(ListedTrade(id, "EUR_USD", 0), 0)],
        !.session_trade_ids = {ToString(i) : i \in 1..k} \cup OpenIds,
        !.winning_trades = k,
        !.total_trades = k + StillOpen,
        !.last_update = 10,
        !.last_transaction_time = 5,
        !.next_metrics_update = 15,
        !.next_bar_poll = 15,
        !.next_transaction_sync = 60 ]

RECURSIVE Orderings(_)
Orderings(S) ==
    IF S = {} THEN { << >> }
    ELSE UNION { { <<x>> \o rest : rest \in Orderings(S \ {x}) } : x \in S }

\* the pages that close some of the open trades, each once, in any order
CapPages ==
    UNION { { [i \in DOMAIN o |-> TradeClose("x" \o o[i], o[i], -100)] : o \in Orderings(S) } :
            S \in SUBSET OpenIds }

InitHistory ==
    /\ \E k \in (MAX_CLOSED_TRADES - ShortOfCap)..MAX_CLOSED_TRADES :
          sessions = [s \in {"s1"} |-> TradingSession(k)]
    /\ detached = << >>
    /\ running_tasks = [s \in {"s1"} |-> 1]
    /\ clients = {"s1"}
    /\ tasks = [t \in TaskIds |->
                  IF t = 1
                  THEN [NoTask EXCEPT !.sid = "s1", !.pc = "sleep", !.started = TRUE,
                                      !.iter_now = 10, !.wake = 15]
                  ELSE NoTask]
    /\ calls = [c \in CallIds |-> NoCall]
    /\ now = 15
    /\ running = NoOne
    /\ ops = 0
    /\ ret = NoReturn
    /\ risk_paused = {}
    /\ ev = {}
    /\ bt = NoBacktest
    /\ mgr = NoManager

NextHistory ==
    \/ \E t \in TaskIds : loop_top(t)
    \/ \E t \in TaskIds : after_metrics(t)
    \/ \E t \in TaskIds : loop_poll(t, TRUE, << >>, 0, FALSE)
    \/ MetricsSteps({TRUE}, SteadyAccount, {<< >>}, NoTrades)
    \/ TransactionSteps({TRUE}, CapPages)
    \/ Clock(MaxTimeHistory)

SpecHistory == InitHistory /\ [][NextHistory]_vars

\* SpecLedger: one session is created and started at clock 0.  The broker
\* opens trade t1 of the session's instrument at 0 and closes it at 5
\* (transaction x1); transaction x2 of the account follows at 10.  Its listing
\* of open trades may show t1 until 10.  get_transactions answers with the
\* transactions from from_time (inclusive) up to the clock's reading.
Ledger ==
    << [ id |-> "x1", type |-> "TRADE_CLOSE", tradeID |-> "t1", time |-> 5,
         pl |-> -100, price |-> 1, units |-> -100, instrument |-> "EUR_USD" ],
       [ id |-> "x2", type |-> "DAILY_FINANCING", tradeID |-> None, time |-> 10,
         pl |-> 0, price |-> 0, units |-> 0, instrument |-> "EUR_USD" ] >>

\* lines 761-766: the page for the session's from_time, asked at clock reading at
LedgerSince(r, at) ==
    LET from_time == IF r.last_transaction_time # NoTime
                     THEN r.last_transaction_time ELSE r.start_time
        Listed_(tx) == tx.time >= from_time /\ tx.time <= at
    IN SelectSeq(Ledger, Listed_)

\* the open trades the broker may list at clock reading at: t1 up to the time
\* of x2, no trade from the time of x1 on
ListingsAt(at) ==
    (IF at <= Ledger[2].time THEN { << ListedTrade("t1", "EUR_USD", 0) >> } ELSE {})
    \cup (IF at >= Ledger[1].time THEN { << >> } ELSE {})

InitLedger == Constructed /\ ops = MaxOpsLedger

\* the steps of the loop task and the answers of the broker and the candle source
LedgerLoop ==
    \/ LoopSteps({TRUE}, {FALSE}, {<< >>}, NoCandles, {0})
    \/ \E t \in TaskIds, a \in SteadyAccount : metrics_summary(t, TRUE, a)
    \/ \E t \in TaskIds : metrics_positions(t, TRUE, << >>)
    \/ \E t \in TaskIds, l \in ListingsAt(now) : metrics_trades(t, TRUE, l)
    \/ \E t \in TaskIds :
          /\ HasObj(tasks[t].sid)
          /\ metrics_transactions(t, TRUE, LedgerSince(Obj(tasks[t].sid), now))

NextLedger ==
    \/ Create({"s1"}, {100}, MAX_CONCURRENT_SESSIONS)
    \/ Start({"s1"}, {TRUE}, SteadyAccount)
    \/ LedgerLoop
    \/ Elapse(MaxTimeLedger)

SpecLedger == InitLedger /\ [][NextLedger]_vars

\* the event loop runs every task that can run, the broker answers every call,
\* and time passes
LiveLedger ==
    SpecLedger /\ WF_vars(LedgerLoop) /\ WF_vars(Elapse(MaxTimeLedger))

\* SpecManager: the routes' manager; start and stop requests in any order
\* while the runner task goes through feed and strategy calls that may raise.
InitManager == Constructed /\ ops = MaxOpsManager

NextManager ==
    \/ manager_start
    \/ manager_stop
    \/ manager_stop_joined
    \/ RunnerSteps(BOOLEAN, FeedOutcomes)

SpecManager == InitManager /\ [][NextManager]_vars

\* the event loop runs every task that is ready, and the feed answers
LiveManager ==
    /\ SpecManager
    /\ WF_vars(manager_stop_joined)
    /\ WF_vars(RunnerSteps(BOOLEAN, FeedOutcomes))

\* A session as create_session and start_session leave it: RUNNING, seeded with
\* the account balance, no position at the broker.
StartedSession ==
    [PaperTradingSession("A", "EUR_USD", "S5", DefaultMaxPositionSize, 100) EXCEPT
        !.status = "running",
        !.start_time = 0,
        !.last_transaction_time = 0,
        !.initial_balance = 1000,
        !.current_balance = 1000,
        !.equity = 1000 ]

\* SpecCoResident: two sessions on one account and instrument have just been
\* started, their loops not yet scheduled.  Each strategy goes long by
\* max_position_size on its first bar.  s2 may be paused, s1 is stopped and
\* finds the longs as one net position.
InitCoResident ==
    /\ sessions = [s \in SessionIds |-> StartedSession]
    /\ detached = << >>
    /\ running_tasks = [s \in SessionIds |-> IF s = "s1" THEN 1 ELSE 2]
    /\ clients = SessionIds
    /\ tasks = [t \in TaskIds |-> NewTask(IF t = 1 THEN "s1" ELSE "s2")]
    /\ calls = [c \in CallIds |-> NoCall]
    /\ now = 0
    /\ running = NoOne
    /\ ops = MaxOpsCoResident
    /\ ret = NoReturn
    /\ risk_paused = {}
    /\ ev = {}
    /\ bt = NoBacktest
    /\ mgr = NoManager

NextCoResident ==
    \/ pause_session("s2")
    \/ Stop({"s1"}, {TRUE}, DoubleListing)
    \/ StopShared({TRUE}, DoubleListing)
    \/ LoopSteps({TRUE}, {FALSE}, {<< >>}, OneCandle, {100})
    \/ TradeSteps({TRUE}, {TRUE})
    \/ MetricsSteps({TRUE}, SteadyAccount, {<< >>}, NoTrades)
    \/ TransactionSteps({TRUE}, NoTransactions)

SpecCoResident == InitCoResident /\ [][NextCoResident]_vars

\* SpecPages: one session is created and started; the reconciliation passes
\* of its loop run every METRICS_REFRESH_SECONDS while the broker's listing of
\* open trades lags and its transaction pages repeat.
InitPages == Constructed /\ ops = MaxOpsPages

NextPages ==
    \/ Create({"s1"}, {100}, MAX_CONCURRENT_SESSIONS)
    \/ Start({"s1"}, {TRUE}, SteadyAccount)
    \/ LoopSteps({TRUE}, {FALSE}, {<< >>}, NoCandles, {0})
    \/ MetricsSteps({TRUE}, SteadyAccount, {<< >>}, StaleListings)
    \/ TransactionSteps({TRUE}, ClosePages)
    \/ Clock(MaxTimePages)

SpecPages == InitPages /\ [][NextPages]_vars


\* ------------------------------------------------------------------ claims
LiveTasks(s) == {t \in TaskIds : TaskLive(t) /\ tasks[t].sid = s}
ByTask(e) == e.by[1] = "task"
Flattening(c) == calls[c].pc \in {"co_positions", "co_order", "all_positions", "all_close"}

\* C1: whenever a reconciliation pass has just returned for a session (taken
\* here for a session that only ever had the one loop task making the pass),
\* the session's total_trades equals the number of its closed trades plus the
\* number of its open trades.
C1_TotalTradesMatchLists ==
    \A e \in ev :
        (e.kind = "metrics_returned" /\ {t \in TaskIds : tasks[t].sid = e.sid} = {e.by[2]}) =>
            LET r == Obj(e.sid)
            IN r.total_trades = Len(r.closed_trades) + Cardinality(DOMAIN r.open_trades)

\* C2: a stop_session that found another RUNNING session on the same account
\* and instrument asks the broker to close no more units than the session's
\* own session_position_units, whatever net position the broker reports.
C2_StopClosesAtMostOwnUnits ==
    \A c \in CallIds : calls[c].co => calls[c].closed <= calls[c].owned

\* a stop with a co-resident session closes 10000 of the 20000 units it owns
C2_Witness ==
    \E c \in CallIds :
        /\ calls[c].co /\ calls[c].pc = "co_order"
        /\ calls[c].owned = 20000 /\ calls[c].closed = 10000

\* C3: at most one unfinished trading-loop task exists per session.
C3_OneLoopTaskPerSession ==
    \A s \in SessionIds : Cardinality(LiveTasks(s)) <= 1

\* C4: a trading-loop task that has ended and in which on_start ran has had
\* on_stop called exactly once.
C4_OnStopOncePerStartedTask ==
    \A t \in TaskIds : (TaskDone(t) /\ tasks[t].started) => tasks[t].stops = 1

\* C5: while a session is PAUSED by pause_session (its loss is under the limit,
\* so only pause_session can have paused it), its loop calls no on_bar and
\* places no market order.
C5_PausedLoopDoesNotTrade ==
    \A e \in ev :
        (ByTask(e) /\ e.kind \in {"on_bar", "create_market_order"}) =>
            LET r == Obj(e.sid)
            IN ~(r.status = "paused" /\ r.daily_loss < r.max_daily_loss)

\* C6: once the loop has paused a session on daily_loss >= max_daily_loss, no
\* loop task of the session feeds a bar to the strategy or places a market
\* order until resume_session is called on it.
C6_RiskPausedLoopDoesNotTrade ==
    \A e \in ev :
        (ByTask(e) /\ e.kind \in {"on_bar", "warmup_bar", "create_market_order"}) =>
            e.sid \notin risk_paused

\* C7: when a reconciliation pass of a RUNNING session has just returned and
\* the losses it saw (initial_balance - current_balance) have reached
\* max_daily_loss, daily_loss has reached max_daily_loss too.
C7_DailyLossReflectsLosses ==
    \A e \in ev : e.kind = "metrics_returned" =>
        LET r == Obj(e.sid)
        IN (r.status = "running" /\ r.initial_balance - r.current_balance >= r.max_daily_loss)
               => r.daily_loss >= r.max_daily_loss

\* C8: every stop_session on a registered session finishes by returning, with
\* the session STOPPED and no entry for it in the task map.
C8_StopEndsStopped ==
    \A e \in ev : e.kind \in {"stop_returned", "stop_raised"} =>
        /\ e.kind = "stop_returned"
        /\ Obj(e.sid).status = "stopped"
        /\ e.sid \notin DOMAIN running_tasks

\* C9: while a stop_session is reading or closing positions, the session's
\* status is STOPPING and no loop task of the session places a market order.
C9_FlatteningIsExclusive ==
    \A c \in CallIds : Flattening(c) =>
        /\ Obj(calls[c].sid).status = "stopping"
        /\ \A e \in ev : ~(ByTask(e) /\ e.sid = calls[c].sid /\ e.kind = "create_market_order")

\* C10: a start_session on a session whose status is RUNNING changes no
\* session field, no registered task, no task, no client and starts no call.
C10_StartOnRunningChangesNothing ==
    [][ \A s \in SessionIds :
          (/\ Registered(s)
           /\ sessions[s].status = "running"
           /\ \E client_ok \in BOOLEAN : start_session(s, client_ok))
          => UNCHANGED <<sessions, detached, running_tasks, clients, tasks, calls>> ]_vars

\* a start_session has just returned from a RUNNING session whose task is alive
C10_Witness ==
    /\ ret = [op |-> "start", sid |-> "s1", outcome |-> "already_running"]
    /\ Registered("s1") /\ sessions["s1"].status = "running"
    /\ "s1" \in DOMAIN running_tasks /\ TaskLive(running_tasks["s1"])

\* C11: a session object is created STOPPED, and every change of its status in
\* one step of the engine is STOPPED to STARTING, STARTING to RUNNING, RUNNING
\* to PAUSED, PAUSED to RUNNING, RUNNING or PAUSED to STOPPING, STOPPING to
\* STOPPED, or a move into ERROR from STARTING, RUNNING, PAUSED or STOPPING.
StatusTransitions ==
    { <<"stopped", "starting">>, <<"starting", "running">>, <<"running", "paused">>,
      <<"paused", "running">>, <<"running", "stopping">>, <<"paused", "stopping">>,
      <<"stopping", "stopped">>, <<"starting", "error">>, <<"running", "error">>,
      <<"paused", "error">>, <<"stopping", "error">> }

\* the statuses a step wrote to the session object of id s, in order: the two
\* failure paths of start_session write two statuses without an await between
StatusWrites(s) ==
    IF ret' = [op |-> "start", sid |-> s, outcome |-> "raised"]
    THEN <<Obj(s).status, "starting", "error">>
    ELSE IF ret' = [op |-> "start", sid |-> s, outcome |-> "ok_after_error"]
    THEN <<Obj(s).status, "error", "running">>
    ELSE <<Obj(s).status, Obj(s)'.status>>

C11_StatusFollowsStateMachine ==
    [][ \A s \in SessionIds :
          /\ (s \notin DOMAIN sessions /\ s \in DOMAIN sessions') => sessions'[s].status = "stopped"
          /\ (HasObj(s) /\ HasObj(s)' /\ ~(s \notin DOMAIN sessions /\ s \in DOMAIN sessions'))
               => \A i \in 1..(Len(StatusWrites(s)) - 1) :
                      StatusWrites(s)[i] # StatusWrites(s)[i + 1]
                          => <<StatusWrites(s)[i], StatusWrites(s)[i + 1]>> \in StatusTransitions ]_vars

\* C12: in every reachable state of an engine whose ceiling is SmallCeiling,
\* the number of registered sessions whose status is RUNNING is at most the
\* ceiling.
C12_RunningSessionsWithinCeiling ==
    RunningCount <= SmallCeiling

\* C13: a session's session_position_units changes only by the units of an
\* order of its own loop that the broker accepted, or to zero when its own
\* stop_session has closed its position; it never takes in units found at the
\* broker.
OwnFill(s) ==
    \E t \in TaskIds :
        /\ tasks[t].sid = s /\ tasks[t].pc = "order"
        /\ Obj(s)'.session_position_units = Obj(s).session_position_units
               + PositionDelta(tasks[t].old_position, tasks[t].ctx_position, Obj(s).max_position_size)

OwnClose(s) ==
    \E c \in CallIds :
        calls[c].sid = s /\ Flattening(c) /\ Obj(s)'.session_position_units = 0

C13_UnitsOnlyFromOwnOrders ==
    [][ \A s \in SessionIds :
          (/\ HasObj(s) /\ HasObj(s)' /\ ~(s \notin DOMAIN sessions /\ s \in DOMAIN sessions')
           /\ Obj(s)'.session_position_units # Obj(s).session_position_units)
          => (OwnFill(s) \/ OwnClose(s)) ]_vars

\* C14: no broker trade ID is attributed to two registered sessions: their
\* session_trade_ids sets are disjoint.
C14_TradeIdsDisjoint ==
    \A s1 \in DOMAIN sessions, s2 \in DOMAIN sessions :
        s1 # s2 => sessions[s1].session_trade_ids \cap sessions[s2].session_trade_ids = {}

\* C15: when the session being stopped and another RUNNING session on its
\* account and instrument each hold a long of u = max_position_size units and
\* the broker lists a net position of 2u, the stop places one closing market
\* order of -u units, and after it the stop places no further order and does
\* not close the whole position.
OwnLongs(s, u) ==
    /\ Obj(s).session_position_units = u
    /\ \E x \in other_sessions(s) : sessions[x].session_position_units = u

ClosingCalls(c) ==
    {e \in ev' : e.by = Caller(c) /\ e.kind \in {"create_market_order", "close_position"}}

C15_StopClosesExactlyOwnLong ==
    [][ \A c \in CallIds :
          /\ (/\ calls[c].pc = "co_positions"
              /\ OwnLongs(calls[c].sid, DefaultMaxPositionSize)
              /\ \E l \in DoubleListing : stop_co_positions(c, TRUE, l))
             => /\ ClosingCalls(c) = {Event("create_market_order", calls[c].sid, Caller(c),
                                            -DefaultMaxPositionSize)}
                /\ calls'[c].pc = "co_order"
          /\ (calls[c].pc = "co_order" /\ calls'[c] # calls[c]) => ClosingCalls(c) = {} ]_vars

\* a stop has sent its one closing order of u units while the session and a
\* RUNNING co-resident each hold a long of u units opened by their own orders
C15_Witness ==
    \E c \in CallIds :
        /\ calls[c].pc = "co_order" /\ calls[c].closed = DefaultMaxPositionSize
        /\ OwnLongs(calls[c].sid, DefaultMaxPositionSize)
        /\ Event("create_market_order", calls[c].sid, Caller(c), -DefaultMaxPositionSize) \in ev

\* C16: a step of stop_session(s1) leaves every other session s2 as it was:
\* no field of s2's session object changes, s2's entry in the task map, its
\* loop tasks and its client stay as they are.
StopStep(s1) ==
    \E c \in CallIds :
        /\ calls'[c] # calls[c]
        /\ \/ calls[c].op = "stop" /\ calls[c].sid = s1
           \/ calls'[c].op = "stop" /\ calls'[c].sid = s1

C16_StopLeavesOtherSessions ==
    [][ \A s1 \in SessionIds, s2 \in SessionIds :
          (s1 # s2 /\ StopStep(s1) /\ HasObj(s2))
          => /\ HasObj(s2)' /\ Registered(s2)' = Registered(s2)
             /\ Obj(s2)' = Obj(s2)
             /\ (s2 \in DOMAIN running_tasks) = (s2 \in DOMAIN running_tasks')
             /\ (s2 \in DOMAIN running_tasks => running_tasks'[s2] = running_tasks[s2])
             /\ (s2 \in clients) = (s2 \in clients')
             /\ \A t \in TaskIds : tasks[t].sid = s2 => tasks'[t] = tasks[t] ]_vars

\* stop_session(s1) has just returned after closing s1's long, while s2 on the
\* same account and instrument is RUNNING with its own long, task and client
C16_Witness ==
    /\ ret = [op |-> "stop", sid |-> "s1", outcome |-> "ok"]
    /\ Registered("s1") /\ sessions["s1"].status = "stopped"
    /\ Registered("s2") /\ sessions["s2"].status = "running"
    /\ sessions["s2"].account_id = sessions["s1"].account_id
    /\ sessions["s2"].instrument = sessions["s1"].instrument
    /\ sessions["s2"].session_position_units = DefaultMaxPositionSize
    /\ "s2" \in DOMAIN running_tasks /\ TaskLive(running_tasks["s2"])
    /\ "s2" \in clients

\* C17: when a reconciliation pass returns, winning_trades + losing_trades is
\* at most the number of closed trades; if there are closed trades,
\* winning_trades is the number of them with realized_pl > 0 and losing_trades
\* the number with realized_pl < 0; and a pass that records no new closed trade
\* leaves both counters as they were.
PassReturned(s) == \E e \in ev' : e.kind = "metrics_returned" /\ e.sid = s

C17_WinLossCountsMatchClosedTrades ==
    [][ \A s \in SessionIds :
          (PassReturned(s) /\ HasObj(s) /\ HasObj(s)')
          => LET r == Obj(s)'
             IN /\ r.winning_trades + r.losing_trades <= Len(r.closed_trades)
                /\ Len(r.closed_trades) > 0
                     => /\ r.winning_trades = CountWhere(r.closed_trades, 1)
                        /\ r.losing_trades = CountWhere(r.closed_trades, -1)
                /\ r.closed_trades = Obj(s).closed_trades
                     => /\ r.winning_trades = Obj(s).winning_trades
                        /\ r.losing_trades = Obj(s).losing_trades ]_vars

\* a pass made after the clock advanced has just returned for a session that
\* has one closed trade, a losing one, counted in losing_trades
C17_Witness ==
    \E e \in ev :
        /\ e.kind = "metrics_returned"
        /\ Len(Obj(e.sid).closed_trades) = 1
        /\ Obj(e.sid).closed_trades[1].realized_pl < 0
        /\ Obj(e.sid).losing_trades = 1 /\ Obj(e.sid).winning_trades = 0
        /\ Obj(e.sid).last_transaction_time = 5
        /\ Obj(e.sid).next_transaction_sync > TRANSACTION_REFRESH_SECONDS

\* C18: a step of a loop task in which on_start has run changes the session's
\* status only by the risk pause, and ends the task only if the task was
\* cancelled or the status had left {RUNNING, PAUSED}, whatever fails in the
\* step; and a task that ends before on_start has run, other than by
\* cancellation or a missing session, leaves the session in ERROR with the
\* initialisation message and has fed no bar to the strategy.
OwnStep(t) == [tasks'[t] EXCEPT !.must_cancel = tasks[t].must_cancel] # tasks[t]

C18_FailuresDoNotEndTheLoop ==
    [][ \A t \in TaskIds :
          (TaskLive(t) /\ OwnStep(t) /\ HasObj(tasks[t].sid) /\ HasObj(tasks[t].sid)')
          => LET s == tasks[t].sid
             IN /\ tasks[t].started
                  => /\ Obj(s)'.status # Obj(s).status
                          => \E e \in ev' : e.kind = "risk_pause" /\ e.sid = s
                     /\ TaskDone(t)'
                          => (tasks[t].must_cancel \/ Obj(s).status \notin {"running", "paused"})
                /\ (~tasks[t].started /\ TaskDone(t)' /\ tasks'[t].outcome = "returned")
                  => /\ Obj(s)'.status = "error"
                     /\ Obj(s)'.error_message = "Strategy initialization failed"
                     /\ \A e \in ev' : e.kind \notin {"on_bar", "warmup_bar"} ]_vars

\* a started loop task sleeps after a failure of its iteration, the session
\* still RUNNING
C18_Witness ==
    \E t \in TaskIds :
        /\ tasks[t].started /\ tasks[t].pc = "sleep"
        /\ Obj(tasks[t].sid).status = "running"
        /\ Obj(tasks[t].sid).error_message = "Order execution failed"

\* C19: after a step of the loop in which the candle fetch, the quote call or
\* the order call failed, or in which a query of the reconciliation pass
\* failed, the session's error_message is a message about a failure of the
\* loop's iteration: it is not None and not what start_session or the
\* strategy's initialisation left there.
OtherMessages ==
    {None, "Failed to create OANDA client", "Failed to get account balance",
     "Strategy initialization failed"}

FailedStep(t) ==
    \/ \E bars \in FewCandles, target \in StrategyTargets, raised \in BOOLEAN :
          loop_poll(t, FALSE, bars, target, raised)
    \/ tasks[t].pc = "quote" /\ Registered(tasks[t].sid) /\ tasks[t].sid \in clients
                             /\ loop_quote(t, FALSE, TRUE)
    \/ \E fill \in OrderFills : loop_order(t, FALSE, fill)
    \/ \E a \in AccountSummaries : metrics_summary(t, FALSE, a)
    \/ \E l \in PositionListings : metrics_positions(t, FALSE, l)
    \/ \E l \in TradeListings : metrics_trades(t, FALSE, l)
    \/ \E p \in TransactionPages : metrics_transactions(t, FALSE, p)

C19_ErrorMessageTellsLastFailure ==
    [][ \A t \in TaskIds :
          (TaskLive(t) /\ HasObj(tasks[t].sid) /\ FailedStep(t))
          => Obj(tasks[t].sid)'.error_message \notin OtherMessages ]_vars

\* C20: when the account summary fails in start_session, the call writes ERROR
\* and the failure's message, still spawns the loop task and registers it,
\* returns without raising, and leaves the session RUNNING.
C20_StartSurvivesSummaryFailure ==
    [][ \A c \in CallIds, s \in SessionIds :
          (/\ calls[c].op = "start" /\ calls[c].pc = "summary" /\ calls[c].sid = s
           /\ \E a \in AccountSummaries : start_session_resume(c, FALSE, a))
          => /\ \E e \in ev' : e.kind = "status_error" /\ e.sid = s
             /\ Obj(s)'.error_message = "Failed to get account balance"
             /\ Obj(s)'.status = "running"
             /\ s \in DOMAIN running_tasks'
             /\ tasks'[running_tasks'[s]].pc = "new" /\ tasks'[running_tasks'[s]].sid = s
             /\ tasks[running_tasks'[s]].pc \in {"unused", "done"}
             /\ ret' = [op |-> "start", sid |-> s, outcome |-> "ok_after_error"] ]_vars

\* a start_session whose account summary failed has just returned: the session
\* is RUNNING with the failure's message and a new loop task is registered
C20_Witness ==
    /\ ret = [op |-> "start", sid |-> "s1", outcome |-> "ok_after_error"]
    /\ Registered("s1") /\ sessions["s1"].status = "running"
    /\ sessions["s1"].error_message = "Failed to get account balance"
    /\ "s1" \in DOMAIN running_tasks /\ tasks[running_tasks["s1"]].pc = "new"

\* C21: when delete_session has just returned for a session that was
\* registered, the session ID is in neither the sessions map nor the client
\* map, and no trading-loop task of the session is unfinished.
C21_DeleteLeavesNoTask ==
    \A s \in SessionIds :
        ret = [op |-> "delete", sid |-> s, outcome |-> "ok"]
            => /\ s \notin DOMAIN sessions
               /\ s \notin clients
               /\ LiveTasks(s) = {}

\* C22: a pause_session on a registered session changes RUNNING to PAUSED and
\* nothing else, and in any other status changes no session; a resume_session
\* changes PAUSED to RUNNING and sets next_metrics_update, next_bar_poll and
\* next_transaction_sync to the current time, and in any other status changes
\* no session; neither touches the task map, the tasks or the clients.
C22_PauseResumeToggle ==
    [][ \A s \in SessionIds :
          /\ (ret'.op = "pause" /\ ret'.sid = s /\ Registered(s))
               => /\ sessions' = IF sessions[s].status = "running"
                                 THEN [sessions EXCEPT ![s].status = "paused"]
                                 ELSE sessions
                  /\ UNCHANGED <<detached, running_tasks, tasks, clients, calls>>
          /\ (ret'.op = "resume" /\ ret'.sid = s /\ Registered(s))
               => /\ sessions' = IF sessions[s].status = "paused"
                                 THEN [sessions EXCEPT ![s].status = "running",
                                                       ![s].next_metrics_update = now,
                                                       ![s].next_bar_poll = now,
                                                       ![s].next_transaction_sync = now]
                                 ELSE sessions
                  /\ UNCHANGED <<detached, running_tasks, tasks, clients, calls>> ]_vars

\* a resume_session has just taken effect after the clock advanced: the
\* session is RUNNING and its three cursors, which the loop had set ahead,
\* stand at the current time
C22_Witness ==
    /\ ret = [op |-> "resume", sid |-> "s1", outcome |-> "ok"]
    /\ now = TickSeconds
    /\ sessions["s1"].status = "running"
    /\ sessions["s1"].next_metrics_update = now
    /\ sessions["s1"].next_bar_poll = now
    /\ sessions["s1"].next_transaction_sync = now

\* a call the engine refuses: create_session on a registered ID, or one of the
\* other calls on an ID that is not registered
RefusedCall(s) ==
    \/ /\ Registered(s)
       /\ \E a \in AccountIds, i \in Instruments, g \in Granularities, l \in DailyLossLimits :
             create_session(s, a, i, g, l, MAX_CONCURRENT_SESSIONS)
    \/ /\ ~Registered(s)
       /\ \/ \E client_ok \in BOOLEAN : start_session(s, client_ok)
          \/ stop_session(s)
          \/ pause_session(s)
          \/ resume_session(s)

\* C23: a create_session with a registered ID, and a start_session,
\* stop_session, pause_session or resume_session with an ID that is not
\* registered, returns its error in the step that issues it and leaves the
\* sessions map with every session in it, the task map, the tasks, the client
\* map and the suspended calls as they were.
C23_RefusedCallsChangeNothing ==
    [][ \A s \in SessionIds :
          RefusedCall(s)
          => /\ ret'.sid = s
             /\ ret'.outcome = IF ret'.op = "create" THEN "duplicate" ELSE "not_found"
             /\ UNCHANGED <<sessions, detached, running_tasks, tasks, clients, calls>> ]_vars

\* a create_session for the ID of a RUNNING session whose loop task is alive
\* has just been refused
C23_Witness ==
    /\ ret = [op |-> "create", sid |-> "s1", outcome |-> "duplicate"]
    /\ Registered("s1") /\ sessions["s1"].status = "running"
    /\ "s1" \in DOMAIN running_tasks /\ TaskLive(running_tasks["s1"])
    /\ "s1" \in clients

\* a step of the recovery call c
RecoverStep(c) ==
    /\ calls'[c] # calls[c]
    /\ (calls[c].op = "recover" \/ calls'[c].op = "recover")

\* C24: recover_orphaned_positions asks the broker to close a position only
\* with auto_close true and only for an instrument that is the instrument of
\* no registered session; after a close_position answered or failed, the next
\* orphan still to be looked at is closed; no step of the recovery changes a
\* session; and the call ends by returning.
C24_RecoveryClosesOnlyOrphans ==
    [][ \A c \in CallIds :
          RecoverStep(c)
          => /\ calls'[c].pc = "r_close"
                  => /\ calls'[c].auto
                     /\ \A x \in DOMAIN sessions : sessions[x].instrument # calls'[c].closing
             /\ (calls[c].pc = "r_close"
                   /\ FirstOrphan(calls[c].todo, calls[c].tracked, 1) > 0)
                  => /\ calls'[c].pc = "r_close"
                     /\ calls'[c].closing =
                           calls[c].todo[FirstOrphan(calls[c].todo, calls[c].tracked, 1)].instrument
             /\ UNCHANGED <<sessions, detached, running_tasks, clients, tasks>>
             /\ calls'[c] = NoCall => ret' = [op |-> "recover", sid |-> None, outcome |-> "ok"] ]_vars

\* the pnl of the recorded trades from the i-th on
RECURSIVE SumPnl(_, _)
SumPnl(trades, i) == IF i > Len(trades) THEN 0 ELSE trades[i].pnl + SumPnl(trades, i + 1)

\* the position held before bar j
HeldBefore(targets, j) == IF j > 1 THEN targets[j - 1] ELSE 0

\* the bar on which the position held after bar j was taken (0: none, flat)
RECURSIVE OpenedAt(_, _)
OpenedAt(targets, j) ==
    IF j = 0 THEN 0
    ELSE IF targets[j] # HeldBefore(targets, j) THEN (IF targets[j] = 0 THEN 0 ELSE j)
    ELSE OpenedAt(targets, j - 1)

OpenPositionValue(b) ==
    LET n == Len(b.bars)
        j == OpenedAt(b.targets, n)
    IN IF j = 0 THEN 0
       ELSE (Price(b.bars[n].c)
                - FillPrice(b.bars[j].c, b.targets[j], HeldBefore(b.targets, j), b.slippage))
            * b.targets[n] * b.notional_per_unit

\* C25: when run_backtest returns, final_equity - the last point of the equity
\* curve - is initial_equity plus the pnl of all recorded trades plus the open
\* position valued at the last bar's close against the price it was filled
\* at; a run over no bars returns initial_equity.
C25_FinalEquityRoundTrip ==
    bt.pc = "done" =>
        /\ bt.final_equity = bt.initial_equity + SumPnl(bt.trades, 1) + OpenPositionValue(bt)
        /\ bt.curve # << >> => bt.curve[Len(bt.curve)].equity = bt.final_equity
        /\ bt.bars = << >> => bt.final_equity = bt.initial_equity

\* a run with slippage and fees has returned with one trade closed at a loss
\* or gain and a short still open whose value at the last close is not zero
C25_Witness ==
    /\ bt.pc = "done"
    /\ bt.slippage = 1 /\ bt.fee_bps = 100
    /\ Len(bt.trades) = 1 /\ bt.trades[1].pnl # 0
    /\ bt.pos = -1
    /\ OpenPositionValue(bt) # 0
    /\ bt.final_equity # bt.initial_equity + SumPnl(bt.trades, 1)

\* the run of scenario 2 has returned: closes 100, 101, 99, the strategy
\* alternating between 1 and 0 from the first bar on, notional_per_unit 1, no
\* slippage, no fee
AlternatingRun ==
    /\ bt.pc = "done"
    /\ bt.bars = << BacktestBar(1, 100), BacktestBar(2, 101), BacktestBar(3, 99) >>
    /\ bt.targets = << 1, 0, 1 >>
    /\ bt.notional_per_unit = 1 /\ bt.slippage = 0 /\ bt.fee_bps = 0

\* the one trade of scenario 2: in at 100, out at 101, pnl (101 - 100) * 1,
\* and the equity recorded from the second bar on includes it
OneTradeOfOne ==
    /\ Len(bt.trades) = 1
    /\ bt.trades[1].entry_px = Price(100) /\ bt.trades[1].exit_px = Price(101)
    /\ bt.trades[1].pnl = Price(1)
    /\ bt.curve[2].equity = bt.initial_equity + Price(1)

\* C26 as amended: in scenario 2 the run records exactly one closed trade, of
\* pnl 1, on the second bar; the position taken next is opened on the third
\* bar at its close, 99, and the final equity is initial_equity + 1.
C26_AlternatingReopensAtThirdBar ==
    AlternatingRun =>
        /\ OneTradeOfOne
        /\ bt.pos = 1 /\ bt.entry_px = Price(99)
        /\ bt.curve[3].equity = bt.initial_equity + Price(1)
        /\ bt.final_equity = bt.initial_equity + Price(1)

\* C26 as stated: in scenario 2 the run records exactly one closed trade, of
\* pnl 1, and the new trade opens at 101; the recorded equity includes the +1.
C26_AlternatingReopensAt101 ==
    AlternatingRun =>
        /\ OneTradeOfOne
        /\ bt.pos = 1 /\ bt.entry_px = Price(101)
        /\ bt.final_equity = bt.initial_equity + Price(1)

\* the run of scenario 2 has returned with its one trade
C26_Witness ==
    AlternatingRun /\ Len(bt.trades) = 1 /\ bt.pos = 1

\* the trades of a listing, those attributed by ID and those attributed by
\* instrument and open time
Listed(l) == {l[i] : i \in DOMAIN l}

AttributedById(r, l) == {trade \in Listed(l) : trade.id \in r.session_trade_ids}

AttributedByTime(r, l) ==
    {trade \in Listed(l) :
        /\ trade.id \notin r.session_trade_ids
        /\ trade.instrument = r.instrument
        /\ r.start_time # NoTime /\ trade.openTime # NoTime
        /\ trade.openTime >= r.start_time}

\* C27: when the open trades answer in a reconciliation pass, the session's
\* open_trades afterwards holds exactly the listed trades attributed to the
\* session - those whose ID was in session_trade_ids and those of the
\* session's instrument opened at or after start_time - each with the open
\* time, price and units listed for that trade, and the ID of every trade
\* attributed by instrument and time is in session_trade_ids.
C27_OpenTradesAreTheAttributedOnes ==
    [][ \A t \in TaskIds, s \in SessionIds, l \in TradeListings :
          (/\ tasks[t].pc = "m_trades" /\ tasks[t].sid = s /\ HasObj(s)
           /\ metrics_trades(t, TRUE, l))
          => LET mine == AttributedById(Obj(s), l) \cup AttributedByTime(Obj(s), l)
             IN /\ DOMAIN Obj(s)'.open_trades = {trade.id : trade \in mine}
                /\ \A trade \in mine :
                      /\ trade.id \in DOMAIN Obj(s)'.open_trades
                      /\ Obj(s)'.open_trades[trade.id] = OpenTrade(trade, trade.openTime)
                /\ \A trade \in AttributedByTime(Obj(s), l) :
                      trade.id \in Obj(s)'.session_trade_ids ]_vars

\* lines 613-615 read as a clamp to both sides
Clamp(x, lo, hi) == IF x < lo THEN lo ELSE IF x > hi THEN hi ELSE x

\* C29: a session that started from zero units never holds more than
\* max_position_size units, long or short, through its own orders, and every
\* order the broker accepted leaves session_position_units at the strategy's
\* target times max_position_size clamped to +-max_position_size.
C29_OwnUnitsWithinMaxPositionSize ==
    [][ \A t \in TaskIds, s \in SessionIds :
          (/\ tasks[t].pc = "order" /\ tasks[t].sid = s /\ HasObj(s)
           /\ \E fill \in OrderFills : loop_order(t, TRUE, fill))
          => /\ Abs(Obj(s)'.session_position_units) <= Obj(s).max_position_size
             /\ Obj(s)'.session_position_units =
                   Clamp(UnitsOf(tasks[t].ctx_position, Obj(s).max_position_size),
                         -Obj(s).max_position_size, Obj(s).max_position_size) ]_vars

\* the quote call failed, or answered without a price
QuoteUnavailable(t) ==
    \/ \E priced \in BOOLEAN : loop_quote(t, FALSE, priced)
    \/ loop_quote(t, TRUE, FALSE)

\* C28: when the strategy has changed its target on a new bar and the quote
\* call fails or answers without a price, the loop takes the bar's close for
\* the price and sends the order for the change in that same iteration.
C28_QuoteFailureFallsBackToClose ==
    [][ \A t \in TaskIds, s \in SessionIds :
          (/\ tasks[t].pc = "quote" /\ tasks[t].sid = s
           /\ Registered(s) /\ s \in clients
           /\ Abs(PositionDelta(tasks[t].old_position, tasks[t].ctx_position,
                                sessions[s].max_position_size)) >= MinTradeUnits
           /\ QuoteUnavailable(t))
          => /\ tasks'[t].pc = "order"
             /\ Event("price_from_close", s, Me(t), 0) \in ev'
             /\ Event("create_market_order", s, Me(t),
                      PositionDelta(tasks[t].old_position, tasks[t].ctx_position,
                                    sessions[s].max_position_size)) \in ev' ]_vars

\* C30: the warmup step of a loop task - whatever the candle fetch returns,
\* also when it fails or when a replayed on_bar raises - leaves ctx.position
\* at the value seeded before it and places no order.
C30_WarmupKeepsContextPosition ==
    [][ \A t \in TaskIds :
          (tasks[t].pc = "warmup" /\ tasks'[t].pc = "top")
          => /\ tasks'[t].ctx_position = tasks[t].ctx_position
             /\ \A e \in ev' : e.kind \notin {"create_market_order", "close_position"} ]_vars

\* the close transactions of a page that the session has not recorded
UnrecordedCloses(r, transactions) ==
    {i \in DOMAIN transactions :
        /\ transactions[i].type = "TRADE_CLOSE"
        /\ transactions[i].tradeID \notin SeqIds(r.closed_trades)}

\* the closed trades carry pairwise different IDs
DistinctIds(closed) == \A i, j \in DOMAIN closed : closed[i].id = closed[j].id => i = j

\* C31: closed_trades never holds two entries with the same trade ID, whatever
\* listings and pages the reconciliation passes are answered with, and a pass
\* whose page carries no close that is not yet recorded leaves closed_trades as
\* it was.
C31_ClosedTradesHaveDistinctIds ==
    [][\A s \in SessionIds : HasObj(s)' =>
          /\ DistinctIds(Obj(s)'.closed_trades)
          /\ \A t \in TaskIds, p \in ClosePages :
                (HasObj(s) /\ tasks[t].sid = s /\ metrics_transactions(t, TRUE, p)
                    /\ UnrecordedCloses(Obj(s), p) = {})
                => Obj(s)'.closed_trades = Obj(s).closed_trades]_vars

\* the order _execute_position_change computes for task t (lines 610-617)
OrderDelta(t) ==
    LET r == Obj(tasks[t].sid)
    IN Clamp(UnitsOf(tasks[t].ctx_position, r.max_position_size),
             -r.max_position_size, r.max_position_size)
       - UnitsOf(tasks[t].old_position, r.max_position_size)

FedBar(t) == \E e \in ev' : e.kind = "on_bar" /\ e.by = Me(t)

\* C33: within one run of a trading loop the timestamps of the bars passed to
\* on_bar strictly increase: last_bar_time holds the timestamp of the last bar
\* fed, a step feeds a bar only if it is newer and then records it, and a poll
\* answered with no bar or with a bar that is not newer feeds nothing.
C33_FedBarsStrictlyIncrease ==
    [][\A t \in TaskIds :
          /\ FedBar(t) => tasks'[t].last_bar_time > tasks[t].last_bar_time
          /\ (TaskLive(t) /\ tasks'[t].last_bar_time # tasks[t].last_bar_time) => FedBar(t)
          /\ \A bars \in PolledBars, raised \in BOOLEAN :
                /\ loop_poll(t, TRUE, bars, 0, raised) /\ FedBar(t) =>
                      /\ bars # << >>
                      /\ bars[Len(bars)] > tasks[t].last_bar_time
                      /\ tasks'[t].last_bar_time = bars[Len(bars)]]_vars

\* the newest bar was fed earlier and the poll at time 10 has fed nothing: the
\* task sleeps the poll back-off
C33_Witness ==
    \E t \in TaskIds :
        /\ tasks[t].last_bar_time = 3
        /\ now = 10 /\ tasks[t].iter_now = 10
        /\ tasks[t].pc = "sleep" /\ tasks[t].wake = now + MIN_BAR_POLL_SECONDS

\* the IDs of a list of closed trades and of a page's transactions, in order
IdsOf(closed) == [i \in DOMAIN closed |-> closed[i].id]
PageIds(p) == [i \in DOMAIN p |-> p[i].tradeID]
KeepLast(seq, cap) ==
    IF Len(seq) > cap THEN SubSeq(seq, Len(seq) - cap + 1, Len(seq)) ELSE seq

\* C34: closed_trades never holds more than MAX_CLOSED_TRADES entries, and a
\* pass that records closes leaves the last MAX_CLOSED_TRADES of the old list
\* followed by the new closes in the order read: the oldest are dropped, the
\* entries kept are the ones that were there.
C34_ClosedTradesCapped ==
    [][\A s \in SessionIds : (HasObj(s) /\ HasObj(s)') =>
          LET old == Obj(s).closed_trades
              new == Obj(s)'.closed_trades
          IN /\ Len(new) <= MAX_CLOSED_TRADES
             /\ \A t \in TaskIds, p \in CapPages :
                   (tasks[t].sid = s /\ metrics_transactions(t, TRUE, p)) =>
                      /\ IdsOf(new) = KeepLast(IdsOf(old) \o PageIds(p), MAX_CLOSED_TRADES)
                      /\ \A i \in 1..(Len(new) - Len(p)) :
                            new[i] = old[i + Len(old) + Len(p) - Len(new)]]_vars

\* a list one short of the cap has taken three closes: the two oldest trades
\* are gone, the third is now the first, and the closes read are the last
C34_Witness ==
    /\ HasObj("s1")
    /\ Len(Obj("s1").closed_trades) = MAX_CLOSED_TRADES
    /\ Obj("s1").closed_trades[1].id = "3"
    /\ Obj("s1").closed_trades[MAX_CLOSED_TRADES].id \in OpenIds
    /\ Obj("s1").closed_trades[MAX_CLOSED_TRADES - 2].id \in OpenIds
    /\ Obj("s1").open_trades = << >>

\* task t of a PAUSED session is at the top of an iteration with the
\* metrics-refresh cursor due
PausedAndDue(t) ==
    /\ HasObj(tasks[t].sid)
    /\ Obj(tasks[t].sid).status = "paused"
    /\ now >= Obj(tasks[t].sid).next_metrics_update
    /\ \/ tasks[t].pc = "top" /\ running = Me(t)
       \/ tasks[t].pc = "sleep" /\ Idle /\ ~tasks[t].must_cancel /\ now >= tasks[t].wake

\* C35: while a session is PAUSED, an iteration of its loop that finds the
\* metrics-refresh cursor due starts a reconciliation pass, the pass leaves
\* the cursor METRICS_REFRESH_SECONDS after the iteration's clock reading, and
\* no step of the loop polls the candle source or calls on_bar.
C35_PausedLoopOnlyReconciles ==
    [][\A t \in TaskIds :
          LET s == tasks[t].sid
          IN /\ (PausedAndDue(t) /\ loop_top(t) /\ Registered(s) /\ s \in clients) =>
                   \E e \in ev' : e.kind = "get_account_summary" /\ e.by = Me(t)
             /\ (\E e \in ev' : e.kind = "metrics_returned" /\ e.by = Me(t)) =>
                   Obj(s)'.next_metrics_update = tasks[t].iter_now + METRICS_REFRESH_SECONDS
             /\ (HasObj(s) /\ Obj(s).status = "paused") =>
                   \A e \in ev' : e.by = Me(t) => e.kind \notin {"fetch_candles", "on_bar"}]_vars

\* the broker has closed trade id by the clock's reading
BrokerClosed(id) ==
    \E i \in DOMAIN Ledger :
        Ledger[i].type = "TRADE_CLOSE" /\ Ledger[i].tradeID = id /\ Ledger[i].time <= now

\* C36: a trade attributed to a session that the broker has closed while the
\* session's loop runs is eventually in closed_trades, when the passes keep
\* running and the broker answers every call.
C36_ClosedTradesEventuallyRecorded ==
    \A s \in SessionIds : \A id \in TradeIds :
        (/\ HasObj(s) /\ LiveTasks(s) # {}
         /\ id \in Obj(s).session_trade_ids
         /\ BrokerClosed(id))
        ~> (HasObj(s) /\ id \in SeqIds(Obj(s).closed_trades))

\* task t ends a bar iteration in the step: it leaves the candle, quote or
\* order call for the top of the loop or for the back-off sleep
IterationEnds(t) ==
    /\ tasks[t].pc \in {"poll", "quote", "order"}
    /\ tasks'[t].pc \in {"top", "sleep"}

\* C37: when a bar iteration of a session's loop is over - the order was
\* accepted, rejected or skipped, or the quote call failed - the units of the
\* strategy's ctx.position, clamped to max_position_size, are the session's
\* session_position_units.
C37_ContextMatchesOwnUnits ==
    [][\A t \in TaskIds :
          (IterationEnds(t) /\ HasObj(tasks[t].sid)') =>
             LET q == Obj(tasks[t].sid)'
             IN Clamp(UnitsOf(tasks'[t].ctx_position, q.max_position_size),
                      -q.max_position_size, q.max_position_size)
                = q.session_position_units]_vars

\* the other registered sessions on the account and instrument of s, in any
\* status, that hold units
CoResidents(s) ==
    { x \in DOMAIN sessions :
         /\ x # s
         /\ sessions[x].account_id = Obj(s).account_id
         /\ sessions[x].instrument = Obj(s).instrument
         /\ sessions[x].session_position_units # 0 }

\* C38: a stop_session that asks the broker to close units while another
\* registered session on its account and instrument holds units - RUNNING,
\* PAUSED, STARTING or ERROR - closes no more than the stopped session's own
\* session_position_units.
C38_StopSparesCoResidents ==
    [][\A c \in CallIds :
          (/\ ClosingCalls(c) # {}
           /\ calls'[c].op = "stop"
           /\ CoResidents(calls'[c].sid) # {})
          => calls'[c].closed <= calls'[c].owned]_vars

\* C39: after any reconciliation pass no trade ID is both a key of open_trades
\* and the id of an entry of closed_trades, whatever the broker answered.
C39_OpenAndClosedDisjoint ==
    [][\A s \in SessionIds : (PassReturned(s) /\ HasObj(s)') =>
          DOMAIN Obj(s)'.open_trades \cap SeqIds(Obj(s)'.closed_trades) = {}]_vars

\* C40: once stop() has been called on a manager that is not IDLE the state
\* eventually becomes IDLE again, also when the runner task ended with an
\* error; start() on a manager that is not IDLE raises and spawns no runner
\* task, so at most one runner task is live.
C40_StopReturnsManagerToIdle ==
    /\ (mgr.state = "STOPPING") ~> (mgr.state = "IDLE")
    /\ [][(manager_start /\ mgr.state # "IDLE") =>
             (ret'.outcome = "RuntimeError" /\ mgr' = mgr)]_vars
    /\ [](Cardinality(LiveRunners) <= 1)
====
